---- MODULE Spec2Model ----
(***************************************************************************)
(* A model of the layer-graph engine of cnn.c: layer records held in an    *)
(* arena, the three factories, the forward pass (Layer_setInputs), the     *)
(* backward pass (Layer_learnOutputs) and the weight update (Layer_update).*)
(*                                                                         *)
(* Numbers.  A C double is modelled as a fixed-point integer: the integer  *)
(* n stands for the value n/ONE.  Addition and subtraction are exact;      *)
(* multiplication and division round toward zero to the next multiple of   *)
(* 1/ONE, as a double rounds to its own precision.  NaN is a value of its  *)
(* own that every arithmetic operator propagates and every comparison      *)
(* answers with false, as IEEE 754 prescribes.  C arrays are sequences:    *)
(* the C index i is the TLA+ index i+1.  A Layer* is an index into the     *)
(* arena, NULL is 0.                                                       *)
(***************************************************************************)
EXTENDS Integers, Sequences, FiniteSets, TLC

(***************************************************************************)
(* Bounds of the model.                                                    *)
(***************************************************************************)
MaxLayers == 3      \* layers the arena may hold
MaxCalls  == 6      \* calls of the API in one run
MaxChains == 2      \* input layers, under SpecChains
BatchSize  == 2     \* batch_size of the training loop (32 in mnist.c)
MaxSamples == 4     \* turns of the training loop (nepoch * train_size)
MaxTimes   == 2     \* ntimes of the recurrent network (5 in rnn.c)

(***************************************************************************)
(* Numeric primitives.                                                     *)
(***************************************************************************)
ONE == 8

NaN == -1000000

NULL == 0

Trunc(n, d) == IF n >= 0 THEN n \div d ELSE -((-n) \div d)

FAdd(a, b) == IF a = NaN \/ b = NaN THEN NaN ELSE a + b

FSub(a, b) == IF a = NaN \/ b = NaN THEN NaN ELSE a - b

FMul(a, b) == IF a = NaN \/ b = NaN THEN NaN ELSE Trunc(a * b, ONE)

\* a / b.  0/0 is NaN.  x/0 with x # 0 would be an infinity: no caller of the
\* model produces it (the softmax sum is at least each of its terms), and it
\* is folded into NaN.
FDiv(a, b) ==
    IF a = NaN \/ b = NaN \/ b = 0 THEN NaN ELSE Trunc(a * ONE, b)

\* a < b on doubles: false as soon as one side is NaN.
FLess(a, b) == a # NaN /\ b # NaN /\ a < b

\* 1 + u + u^2/2, the start of the series of e^u, for u >= 0.
ExpSeries(u) == ONE + u + ((u * u) \div (2 * ONE))

\* exp(x) of libm on the model's number format: exactly 1 at 0, positive and
\* monotone, and 0 once the result is below the smallest representable
\* positive number (underflow), as a double's exp is below about -745.
Exp(x) ==
    IF x = NaN THEN NaN
    ELSE IF x >= 0 THEN ExpSeries(x)
    ELSE (ONE * ONE) \div ExpSeries(-x)

\* tanh(x) = 2 / (1 + exp(-2x)) - 1.
Tanh(x) ==
    IF x = NaN THEN NaN
    ELSE FSub(FDiv(2 * ONE, FAdd(ONE, Exp(-(2 * x)))), ONE)

tanh_g(y) == FSub(ONE, FMul(y, y))

relu(x) == IF FLess(0, x) THEN x ELSE 0

relu_g(y) == IF FLess(0, y) THEN ONE ELSE 0

(***************************************************************************)
(* rand(), rnd(), nrnd().  libc's rand() is a deterministic generator with *)
(* hidden process-wide state; a small Lehmer generator stands for it.  The *)
(* state is the variable seed, and rand() returns the new state.           *)
(***************************************************************************)
RAND_MAX == 10

RandMul == 2

Rand(s) == (s * RandMul) % (RAND_MAX + 1)

\* The generator's state when the first layer is built: mnist.c calls
\* srand(0) first, which glibc takes as seed 1.
Seed0 == 1

rnd(r) == Trunc(r * ONE, RAND_MAX)

\* 1.724 in fixed point.
NrndScale == (1724 * ONE) \div 1000

\* nrnd() started in generator state s: the value, and the state it leaves.
nrnd(s) ==
    LET r1 == Rand(s)
        r2 == Rand(r1)
        r3 == Rand(r2)
        r4 == Rand(r3)
    IN  [val  |-> FMul(rnd(r1) + rnd(r2) + rnd(r3) + rnd(r4) - 2 * ONE, NrndScale),
         seed |-> r4]

(***************************************************************************)
(* Generic helpers for the C loops.                                        *)
(***************************************************************************)
Zeros(n) == [i \in 1..n |-> 0]

\* sum over k in lo..hi of f[k], added in the loop's order.
RECURSIVE SumTo(_, _, _)
SumTo(f, lo, hi) == IF hi < lo THEN 0 ELSE FAdd(SumTo(f, lo, hi - 1), f[hi])

\* sum of f[e] over the elements e of the finite set S.
RECURSIVE SumSet(_, _)
SumSet(S, f) ==
    IF S = {} THEN 0
    ELSE LET e == CHOOSE e \in S : TRUE
         IN  FAdd(f[e], SumSet(S \ {e}, f))

(***************************************************************************)
(* The Layer record and the arena.                                         *)
(***************************************************************************)
LAYER_INPUT == "LAYER_INPUT"
LAYER_FULL  == "LAYER_FULL"
LAYER_CONV  == "LAYER_CONV"

VARIABLES
    layers,     \* the arena: layers[p] is the Layer that the pointer p names
    seed,       \* rand()'s hidden state
    hist,       \* the calls made so far, oldest first
    calls,      \* the per-layer steps the last handler ran, in order
    aborted     \* the assert that failed and ended the process, or NoAssert

vars == <<layers, seed, hist, calls, aborted>>

\* Layer_create: the record after calloc and the assignments, and the arena
\* with the record appended and the predecessor linked to it, when no assert
\* fails (CreateAssert).
\* nullptrs holds the names of the buffers whose calloc returned NULL: none
\* when memory is there.
\* freed counts, for the record ("self") and each of its buffers, the calls
\* of free() on the block: 0 while it is allocated.
NewLayer(L, lprev, ltype, depth, width, height, nbiases, nweights) ==
    [lprev     |-> lprev,
     lnext     |-> NULL,
     ltype     |-> ltype,
     lid       |-> IF lprev # NULL THEN L[lprev].lid + 1 ELSE 0,
     depth     |-> depth,
     width     |-> width,
     height    |-> height,
     nnodes    |-> depth * width * height,
     outputs   |-> Zeros(depth * width * height),
     gradients |-> Zeros(depth * width * height),
     errors    |-> Zeros(depth * width * height),
     nbiases   |-> nbiases,
     biases    |-> Zeros(nbiases),
     u_biases  |-> Zeros(nbiases),
     nweights  |-> nweights,
     weights   |-> Zeros(nweights),
     u_weights |-> Zeros(nweights),
     kernsize  |-> 0,
     padding   |-> 0,
     stride    |-> 0,
     nullptrs  |-> {},
     freed     |-> [a \in {"self", "outputs", "gradients", "errors", "biases",
                           "u_biases", "weights", "u_weights"} |-> 0]]

\* No assert has failed.
NoAssert == "none"

\* Layer_create without its assert.
CreateAssert_Off(L, lprev) == NoAssert

\* assert (lprev->lnext == NULL), under if (lprev != NULL).
CreateAssert(L, lprev) ==
    IF lprev # NULL /\ L[lprev].lnext # NULL
    THEN "Layer_create: lprev->lnext == NULL" ELSE NoAssert

\* Layer_create without lprev->lnext = self.
Layer_create_NoLink(L, lprev, ltype, depth, width, height, nbiases, nweights) ==
    Append(L, NewLayer(L, lprev, ltype, depth, width, height,
                       nbiases, nweights))

Layer_create(L, lprev, ltype, depth, width, height, nbiases, nweights) ==
    LET self == Len(L) + 1
        L1   == IF lprev # NULL THEN [L EXCEPT ![lprev].lnext = self] ELSE L
    IN  Append(L1, NewLayer(L, lprev, ltype, depth, width, height,
                            nbiases, nweights))

\* The allocations of Layer_create, in order: the record, then its buffers.
Allocs == <<"self", "outputs", "gradients", "errors", "biases", "u_biases",
            "weights", "u_weights">>

\* Layer_create when the calloc named failed returns NULL: for the record it
\* returns NULL at once; for a buffer it goes on, having linked the
\* predecessor already, and returns the record with that pointer NULL.
Layer_create_NoMem(L, lprev, ltype, depth, width, height, nbiases, nweights, failed) ==
    IF failed = "self" THEN [layers |-> L, ret |-> NULL]
    ELSE LET L1 == Layer_create(L, lprev, ltype, depth, width, height,
                                nbiases, nweights)
         IN  [layers |-> [L1 EXCEPT ![Len(L1)].nullptrs = {failed}],
              ret    |-> Len(L1)]

\* FillWeights without the factor std: weights[i] = nrnd().
RECURSIVE FillWeights_NoStd(_, _, _)
FillWeights_NoStd(n, std, s) ==
    IF n = 0 THEN [w |-> <<>>, seed |-> s]
    ELSE LET r == FillWeights_NoStd(n - 1, std, s)
             v == nrnd(r.seed)
         IN  [w |-> Append(r.w, v.val), seed |-> v.seed]

\* for (i = 0; i < nweights; i++) weights[i] = std * nrnd();
RECURSIVE FillWeights(_, _, _)
FillWeights(n, std, s) ==
    IF n = 0 THEN [w |-> <<>>, seed |-> s]
    ELSE LET r == FillWeights(n - 1, std, s)
             v == nrnd(r.seed)
         IN  [w |-> Append(r.w, FMul(std, v.val)), seed |-> v.seed]

Layer_create_input(L, depth, width, height) ==
    Layer_create(L, NULL, LAYER_INPUT, depth, width, height, 0, 0)

\* The first assert to fail in Layer_create_full (and in the Layer_create it
\* calls), or NoAssert.
FullAssert(L, lprev) ==
    IF lprev = NULL THEN "Layer_create_full: lprev != NULL"
    ELSE CreateAssert(L, lprev)

Layer_create_full(L, s, lprev, nnodes, std) ==
    LET L1   == Layer_create(L, lprev, LAYER_FULL, nnodes, 1, 1,
                             nnodes, nnodes * L[lprev].nnodes)
        self == Len(L1)
        f    == FillWeights(L1[self].nweights, std, s)
    IN  [layers |-> [L1 EXCEPT ![self].weights = f.w], seed |-> f.seed]

\* a % b of C, for b > 0: the remainder has the sign of a.
CRem(a, b) == IF a >= 0 THEN a % b ELSE -((-a) % b)

\* ConvAssert without the assert on the height.
ConvAssert_NoHeight(L, lprev, width, height, kernsize, padding, stride) ==
    IF lprev = NULL THEN "Layer_create_conv: lprev != NULL"
    ELSE IF CRem(kernsize, 2) # 1 THEN "Layer_create_conv: (kernsize % 2) == 1"
    ELSE IF ~((width - 1) * stride + kernsize <= L[lprev].width + padding * 2)
    THEN "Layer_create_conv: (width-1) * stride + kernsize <= lprev->width + padding*2"
    ELSE CreateAssert(L, lprev)

\* ConvAssert with the padding counted on one side only in both shape
\* inequalities.
ConvAssert_PadOnce(L, lprev, width, height, kernsize, padding, stride) ==
    IF lprev = NULL THEN "Layer_create_conv: lprev != NULL"
    ELSE IF CRem(kernsize, 2) # 1 THEN "Layer_create_conv: (kernsize % 2) == 1"
    ELSE IF ~((width - 1) * stride + kernsize <= L[lprev].width + padding)
    THEN "Layer_create_conv: (width-1) * stride + kernsize <= lprev->width + padding*2"
    ELSE IF ~((height - 1) * stride + kernsize <= L[lprev].height + padding)
    THEN "Layer_create_conv: (height-1) * stride + kernsize <= lprev->height + padding*2"
    ELSE CreateAssert(L, lprev)

\* The first assert to fail in Layer_create_conv (and in the Layer_create it
\* calls), or NoAssert.
ConvAssert(L, lprev, width, height, kernsize, padding, stride) ==
    IF lprev = NULL THEN "Layer_create_conv: lprev != NULL"
    ELSE IF CRem(kernsize, 2) # 1 THEN "Layer_create_conv: (kernsize % 2) == 1"
    ELSE IF ~((width - 1) * stride + kernsize <= L[lprev].width + padding * 2)
    THEN "Layer_create_conv: (width-1) * stride + kernsize <= lprev->width + padding*2"
    ELSE IF ~((height - 1) * stride + kernsize <= L[lprev].height + padding * 2)
    THEN "Layer_create_conv: (height-1) * stride + kernsize <= lprev->height + padding*2"
    ELSE CreateAssert(L, lprev)

Layer_create_conv(L, s, lprev, depth, width, height, kernsize, padding, stride, std) ==
    LET L1   == Layer_create(L, lprev, LAYER_CONV, depth, width, height,
                             depth, depth * L[lprev].depth * kernsize * kernsize)
        self == Len(L1)
        f    == FillWeights(L1[self].nweights, std, s)
    IN  [layers |-> [L1 EXCEPT ![self].kernsize = kernsize,
                               ![self].padding  = padding,
                               ![self].stride   = stride,
                               ![self].weights  = f.w],
         seed   |-> f.seed]

(***************************************************************************)
(* Forward engine.                                                         *)
(***************************************************************************)
\* The two loops of Layer_feedForw_full: the (i, j, k) they visit, in order,
\* k being the counter that k++ advances at every visit.
RECURSIVE FullTapsFrom(_, _, _, _, _)
FullTapsFrom(n, pn, i, j, k) ==
    IF i >= n THEN <<>>
    ELSE IF j >= pn THEN FullTapsFrom(n, pn, i + 1, 0, k)
    ELSE <<<<i, j, k>>>> \o FullTapsFrom(n, pn, i, j + 1, k + 1)

FullTaps(self, lprev) == FullTapsFrom(self.nnodes, lprev.nnodes, 0, 0, 0)

\* PreAct_full with the weight matrix read column by column: the weight of
\* (i, j) taken at j*nnodes + i.
PreAct_full_Transposed(self, lprev) ==
    [i1 \in 1..self.nnodes |->
        FAdd(self.biases[i1],
             SumTo([j1 \in 1..lprev.nnodes |->
                       FMul(lprev.outputs[j1],
                            self.weights[(j1 - 1) * self.nnodes + i1])],
                   1, lprev.nnodes))]

\* Y = W * X + B: outputs[] as the first loop nest leaves it.
PreAct_full(self, lprev) ==
    LET taps == FullTaps(self, lprev)
        term == [n \in 1..Len(taps) |->
                    FMul(lprev.outputs[taps[n][2] + 1],
                         self.weights[taps[n][3] + 1])]
    IN  [i1 \in 1..self.nnodes |->
            FAdd(self.biases[i1],
                 SumSet({n \in 1..Len(taps) : taps[n][1] = i1 - 1}, term))]

\* double m = -1; for (...) if (m < x) m = x;
RECURSIVE SoftmaxMaxTo(_, _)
SoftmaxMaxTo(x, n) ==
    IF n = 0 THEN -ONE
    ELSE LET m == SoftmaxMaxTo(x, n - 1)
         IN  IF FLess(m, x[n]) THEN x[n] ELSE m

SoftmaxMax(x) == SoftmaxMaxTo(x, Len(x))

\* y = exp(x - m), as the second loop stores it.
SoftmaxExp(x) == [i \in 1..Len(x) |-> Exp(FSub(x[i], SoftmaxMax(x)))]

\* t, the sum of the y.
SoftmaxSum(x) == SumTo(SoftmaxExp(x), 1, Len(x))

\* outputs[i] /= t
Softmax(x) == [i \in 1..Len(x) |-> FDiv(SoftmaxExp(x)[i], SoftmaxSum(x))]

\* Layer_feedForw_full without the test of lnext: softmax in every layer.
Layer_feedForw_full_Softmax(self, lprev) ==
    LET x == PreAct_full(self, lprev)
    IN  [self EXCEPT !.outputs   = Softmax(x),
                     !.gradients = [i \in 1..self.nnodes |-> ONE]]

\* Layer_feedForw_full that also clears the layer's errors.
Layer_feedForw_full_ClearErrors(self, lprev) ==
    LET x == PreAct_full(self, lprev)
    IN  IF self.lnext = NULL
        THEN [self EXCEPT !.outputs   = Softmax(x),
                          !.gradients = [i \in 1..self.nnodes |-> ONE],
                          !.errors    = Zeros(self.nnodes)]
        ELSE [self EXCEPT !.outputs   = [i \in 1..self.nnodes |-> Tanh(x[i])],
                          !.gradients = [i \in 1..self.nnodes |->
                                            tanh_g(Tanh(x[i]))],
                          !.errors    = Zeros(self.nnodes)]

Layer_feedForw_full(self, lprev) ==
    LET x == PreAct_full(self, lprev)
    IN  IF self.lnext = NULL
        THEN [self EXCEPT !.outputs   = Softmax(x),
                          !.gradients = [i \in 1..self.nnodes |-> ONE]]
        ELSE [self EXCEPT !.outputs   = [i \in 1..self.nnodes |-> Tanh(x[i])],
                          !.gradients = [i \in 1..self.nnodes |->
                                            tanh_g(Tanh(x[i]))]]

\* ForwTaps_conv with the window of (x1, y1) starting at (stride*x1,
\* stride*y1): the padding is not subtracted.
ForwTaps_conv_NoPadding(self, lprev) ==
    LET kernsize == self.kernsize
        Loops == (0..(self.depth - 1)) \X (0..(self.height - 1))
                 \X (0..(self.width - 1)) \X (0..(lprev.depth - 1))
                 \X (0..(kernsize - 1)) \X (0..(kernsize - 1))
        i(t)     == (t[1] * self.height + t[2]) * self.width + t[3]
        qbase(t) == t[1] * lprev.depth * kernsize * kernsize
        y(t)     == self.stride * t[2] + t[5]
        x(t)     == self.stride * t[3] + t[6]
        p(t)     == t[4] * lprev.width * lprev.height + y(t) * lprev.width
        q(t)     == qbase(t) + t[5] * kernsize
    IN  { <<i(t), p(t) + x(t), q(t) + t[6]>> :
            t \in { u \in Loops : /\ 0 <= y(u) /\ y(u) < lprev.height
                                  /\ 0 <= x(u) /\ x(u) < lprev.width } }

\* The loop nest of Layer_feedForw_conv: the triples <<i, p+x, q+dx>> of the
\* statement v += lprev->outputs[p+x] * self->weights[q+dx]; i is the counter
\* that i++ advances once per (z1, y1, x1), so i = (z1*height + y1)*width + x1.
ForwTaps_conv(self, lprev) ==
    LET kernsize == self.kernsize
        Loops == (0..(self.depth - 1)) \X (0..(self.height - 1))
                 \X (0..(self.width - 1)) \X (0..(lprev.depth - 1))
                 \X (0..(kernsize - 1)) \X (0..(kernsize - 1))
        i(t)     == (t[1] * self.height + t[2]) * self.width + t[3]
        qbase(t) == t[1] * lprev.depth * kernsize * kernsize
        y0(t)    == self.stride * t[2] - self.padding
        x0(t)    == self.stride * t[3] - self.padding
        pbase(t) == t[4] * lprev.width * lprev.height
        y(t)     == y0(t) + t[5]
        x(t)     == x0(t) + t[6]
        p(t)     == pbase(t) + y(t) * lprev.width
        q(t)     == qbase(t) + t[5] * kernsize
    IN  { <<i(t), p(t) + x(t), q(t) + t[6]>> :
            t \in { u \in Loops : /\ 0 <= y(u) /\ y(u) < lprev.height
                                  /\ 0 <= x(u) /\ x(u) < lprev.width } }

\* v, before the activation function, for every output index.
PreAct_conv(self, lprev) ==
    LET taps == ForwTaps_conv(self, lprev)
        term == [t \in taps |-> FMul(lprev.outputs[t[2] + 1],
                                     self.weights[t[3] + 1])]
    IN  [i1 \in 1..self.nnodes |->
            FAdd(self.biases[((i1 - 1) \div (self.width * self.height)) + 1],
                 SumSet({t \in taps : t[1] = i1 - 1}, term))]

Layer_feedForw_conv(self, lprev) ==
    LET v == PreAct_conv(self, lprev)
    IN  [self EXCEPT !.outputs   = [i \in 1..self.nnodes |-> relu(v[i])],
                     !.gradients = [i \in 1..self.nnodes |-> relu_g(relu(v[i]))]]

\* One turn of the while loop of Layer_setInputs: the switch on ltype.
ForwStep(st, layer) ==
    LET L == st.L
    IN  IF L[layer].ltype = LAYER_FULL
        THEN [L     |-> [L EXCEPT ![layer] =
                            Layer_feedForw_full(L[layer], L[L[layer].lprev])],
              calls |-> Append(st.calls, <<"Layer_feedForw_full", layer>>)]
        ELSE IF L[layer].ltype = LAYER_CONV
        THEN [L     |-> [L EXCEPT ![layer] =
                            Layer_feedForw_conv(L[layer], L[L[layer].lprev])],
              calls |-> Append(st.calls, <<"Layer_feedForw_conv", layer>>)]
        ELSE st

\* The forward loop run from the last layer back to the first.
RECURSIVE ForwFrom_Backwards(_, _)
ForwFrom_Backwards(st, layer) ==
    IF layer = NULL THEN st
    ELSE ForwStep(ForwFrom_Backwards(st, st.L[layer].lnext), layer)

\* while (layer != NULL) { ...; layer = layer->lnext; }
RECURSIVE ForwFrom(_, _)
ForwFrom(st, layer) ==
    IF layer = NULL THEN st
    ELSE ForwFrom(ForwStep(st, layer), st.L[layer].lnext)

\* The number of times the loops over z1, y1 and x1 of a convolutional step
\* run i++.
LoopCount(self) ==
    (IF self.depth > 0 THEN self.depth ELSE 0)
    * (IF self.height > 0 THEN self.height ELSE 0)
    * (IF self.width > 0 THEN self.width ELSE 0)

\* assert (i == self->nnodes) at the end of Layer_feedForw_conv, for the
\* layers from layer on: the first to fail, or NoAssert.
RECURSIVE ForwAssert(_, _)
ForwAssert(L, layer) ==
    IF layer = NULL THEN NoAssert
    ELSE IF L[layer].ltype = LAYER_CONV /\ LoopCount(L[layer]) # L[layer].nnodes
    THEN "Layer_feedForw_conv: i == self->nnodes"
    ELSE ForwAssert(L, L[layer].lnext)

\* The first assert to fail in Layer_setInputs and the steps it runs, or
\* NoAssert.
SetInputsAssert(L, self) ==
    IF self = NULL THEN "Layer_setInputs: self != NULL"
    ELSE IF L[self].ltype # LAYER_INPUT
    THEN "Layer_setInputs: self->ltype == LAYER_INPUT"
    ELSE IF L[self].lprev # NULL THEN "Layer_setInputs: self->lprev == NULL"
    ELSE ForwAssert(L, L[self].lnext)

Layer_setInputs(L, self, values) ==
    ForwFrom([L     |-> [L EXCEPT ![self].outputs =
                            [i \in 1..L[self].nnodes |-> values[i]]],
              calls |-> <<>>],
             L[self].lnext)

(***************************************************************************)
(* Backward engine.                                                        *)
(***************************************************************************)
\* dnet = errors[i] * gradients[i], for every node.
Dnet(self) ==
    [i \in 1..self.nnodes |-> FMul(self.errors[i], self.gradients[i])]

\* BackTaps_full with the weight of (i, j) taken at j*nnodes + i.
BackTaps_full_Transposed(self, lprev) ==
    [n \in 1..(self.nnodes * lprev.nnodes) |->
        <<(n - 1) \div lprev.nnodes, (n - 1) % lprev.nnodes,
          ((n - 1) % lprev.nnodes) * self.nnodes + ((n - 1) \div lprev.nnodes)>>]

\* The two loops of Layer_feedBack_full: the (i, j, k) they visit, k++ as in
\* the forward step.
BackTaps_full(self, lprev) ==
    FullTapsFrom(self.nnodes, lprev.nnodes, 0, 0, 0)

\* Layer_feedBack_full with = in place of += on the accumulators.
Layer_feedBack_full_Overwrite(self, lprev) ==
    LET taps == BackTaps_full(self, lprev)
        N    == 1..Len(taps)
        dnet == Dnet(self)
        perr == [n \in N |-> FMul(self.weights[taps[n][3] + 1],
                                  dnet[taps[n][1] + 1])]
        dw   == [n \in N |-> FMul(dnet[taps[n][1] + 1],
                                  lprev.outputs[taps[n][2] + 1])]
    IN  [self  |-> [self EXCEPT
                      !.u_weights = [k1 \in 1..self.nweights |->
                          SumSet({n \in N : taps[n][3] = k1 - 1}, dw)],
                      !.u_biases  = [i1 \in 1..self.nbiases |-> dnet[i1]]],
         lprev |-> [lprev EXCEPT
                      !.errors = [j1 \in 1..lprev.nnodes |->
                          SumSet({n \in N : taps[n][2] = j1 - 1}, perr)]]]

\* Layer_feedBack_full without the loop that clears the predecessor's errors.
Layer_feedBack_full_NoClear(self, lprev) ==
    LET taps == BackTaps_full(self, lprev)
        N    == 1..Len(taps)
        dnet == Dnet(self)
        perr == [n \in N |-> FMul(self.weights[taps[n][3] + 1],
                                  dnet[taps[n][1] + 1])]
        dw   == [n \in N |-> FMul(dnet[taps[n][1] + 1],
                                  lprev.outputs[taps[n][2] + 1])]
    IN  [self  |-> [self EXCEPT
                      !.u_weights = [k1 \in 1..self.nweights |->
                          FAdd(self.u_weights[k1],
                               SumSet({n \in N : taps[n][3] = k1 - 1}, dw))],
                      !.u_biases  = [i1 \in 1..self.nbiases |->
                          FAdd(self.u_biases[i1], dnet[i1])]],
         lprev |-> [lprev EXCEPT
                      !.errors = [j1 \in 1..lprev.nnodes |->
                          FAdd(lprev.errors[j1],
                               SumSet({n \in N : taps[n][2] = j1 - 1}, perr))]]]

\* Layer_feedBack_full: the layer and its predecessor afterwards.
Layer_feedBack_full(self, lprev) ==
    LET taps == BackTaps_full(self, lprev)
        N    == 1..Len(taps)
        dnet == Dnet(self)
        perr == [n \in N |-> FMul(self.weights[taps[n][3] + 1],
                                  dnet[taps[n][1] + 1])]
        dw   == [n \in N |-> FMul(dnet[taps[n][1] + 1],
                                  lprev.outputs[taps[n][2] + 1])]
    IN  [self  |-> [self EXCEPT
                      !.u_weights = [k1 \in 1..self.nweights |->
                          FAdd(self.u_weights[k1],
                               SumSet({n \in N : taps[n][3] = k1 - 1}, dw))],
                      !.u_biases  = [i1 \in 1..self.nbiases |->
                          FAdd(self.u_biases[i1], dnet[i1])]],
         lprev |-> [lprev EXCEPT
                      !.errors = [j1 \in 1..lprev.nnodes |->
                          SumSet({n \in N : taps[n][2] = j1 - 1}, perr)]]]

\* BackTaps_conv with the kernel of the pair (z1, z0): q has the term
\* z0*kernsize*kernsize that the forward step leaves out.
BackTaps_conv_PerPair(self, lprev) ==
    LET kernsize == self.kernsize
        Loops == (0..(self.depth - 1)) \X (0..(self.height - 1))
                 \X (0..(self.width - 1)) \X (0..(lprev.depth - 1))
                 \X (0..(kernsize - 1)) \X (0..(kernsize - 1))
        i(t)     == (t[1] * self.height + t[2]) * self.width + t[3]
        qbase(t) == (t[1] * lprev.depth + t[4]) * kernsize * kernsize
        y(t)     == self.stride * t[2] - self.padding + t[5]
        x(t)     == self.stride * t[3] - self.padding + t[6]
        p(t)     == t[4] * lprev.width * lprev.height + y(t) * lprev.width
        q(t)     == qbase(t) + t[5] * kernsize
    IN  { <<i(t), p(t) + x(t), q(t) + t[6]>> :
            t \in { u \in Loops : /\ 0 <= y(u) /\ y(u) < lprev.height
                                  /\ 0 <= x(u) /\ x(u) < lprev.width } }

\* The loop nest of Layer_feedBack_conv: the triples <<i, p+x, q+dx>> of the
\* statements lprev->errors[p+x] += self->weights[q+dx] * dnet and
\* self->u_weights[q+dx] += dnet * lprev->outputs[p+x].
BackTaps_conv(self, lprev) ==
    LET kernsize == self.kernsize
        Loops == (0..(self.depth - 1)) \X (0..(self.height - 1))
                 \X (0..(self.width - 1)) \X (0..(lprev.depth - 1))
                 \X (0..(kernsize - 1)) \X (0..(kernsize - 1))
        i(t)     == (t[1] * self.height + t[2]) * self.width + t[3]
        qbase(t) == t[1] * lprev.depth * kernsize * kernsize
        y0(t)    == self.stride * t[2] - self.padding
        x0(t)    == self.stride * t[3] - self.padding
        pbase(t) == t[4] * lprev.width * lprev.height
        y(t)     == y0(t) + t[5]
        x(t)     == x0(t) + t[6]
        p(t)     == pbase(t) + y(t) * lprev.width
        q(t)     == qbase(t) + t[5] * kernsize
    IN  { <<i(t), p(t) + x(t), q(t) + t[6]>> :
            t \in { u \in Loops : /\ 0 <= y(u) /\ y(u) < lprev.height
                                  /\ 0 <= x(u) /\ x(u) < lprev.width } }

\* Layer_feedBack_conv: the layer and its predecessor afterwards.
Layer_feedBack_conv(self, lprev) ==
    LET taps == BackTaps_conv(self, lprev)
        dnet == Dnet(self)
        perr == [t \in taps |-> FMul(self.weights[t[3] + 1], dnet[t[1] + 1])]
        dw   == [t \in taps |-> FMul(dnet[t[1] + 1], lprev.outputs[t[2] + 1])]
        slice == self.width * self.height
    IN  [self  |-> [self EXCEPT
                      !.u_weights = [q1 \in 1..self.nweights |->
                          FAdd(self.u_weights[q1],
                               SumSet({t \in taps : t[3] = q1 - 1}, dw))],
                      !.u_biases  = [z \in 1..self.nbiases |->
                          FAdd(self.u_biases[z],
                               SumTo(dnet, (z - 1) * slice + 1, z * slice))]],
         lprev |-> [lprev EXCEPT
                      !.errors = [p1 \in 1..lprev.nnodes |->
                          SumSet({t \in taps : t[2] = p1 - 1}, perr)]]]

\* One turn of the while loop of Layer_learnOutputs: the switch on ltype.
BackStep(st, layer) ==
    LET L     == st.L
        lprev == L[layer].lprev
    IN  IF L[layer].ltype = LAYER_FULL
        THEN LET r == Layer_feedBack_full(L[layer], L[lprev])
             IN  [L     |-> [L EXCEPT ![layer] = r.self, ![lprev] = r.lprev],
                  calls |-> Append(st.calls, <<"Layer_feedBack_full", layer>>)]
        ELSE IF L[layer].ltype = LAYER_CONV
        THEN LET r == Layer_feedBack_conv(L[layer], L[lprev])
             IN  [L     |-> [L EXCEPT ![layer] = r.self, ![lprev] = r.lprev],
                  calls |-> Append(st.calls, <<"Layer_feedBack_conv", layer>>)]
        ELSE st

\* while (layer != NULL) { ...; layer = layer->lprev; }
RECURSIVE BackFrom(_, _)
BackFrom(st, layer) ==
    IF layer = NULL THEN st
    ELSE BackFrom(BackStep(st, layer), st.L[layer].lprev)

\* assert (i == self->nnodes) at the end of Layer_feedBack_conv, for the
\* layers from layer back: the first to fail, or NoAssert.
RECURSIVE BackAssert(_, _)
BackAssert(L, layer) ==
    IF layer = NULL THEN NoAssert
    ELSE IF L[layer].ltype = LAYER_CONV /\ LoopCount(L[layer]) # L[layer].nnodes
    THEN "Layer_feedBack_conv: i == self->nnodes"
    ELSE BackAssert(L, L[layer].lprev)

\* The first assert to fail in Layer_learnOutputs and the steps it runs, or
\* NoAssert.
LearnOutputsAssert(L, self) ==
    IF self = NULL THEN "Layer_learnOutputs: self != NULL"
    ELSE IF L[self].ltype = LAYER_INPUT
    THEN "Layer_learnOutputs: self->ltype != LAYER_INPUT"
    ELSE IF L[self].lprev = NULL THEN "Layer_learnOutputs: self->lprev != NULL"
    ELSE BackAssert(L, self)

Layer_learnOutputs(L, self, values) ==
    BackFrom([L     |-> [L EXCEPT ![self].errors =
                            [i \in 1..L[self].nnodes |->
                                FSub(L[self].outputs[i], values[i])]],
              calls |-> <<>>],
             self)

(***************************************************************************)
(* Readers.                                                                *)
(***************************************************************************)
\* for (i = 0; i < nnodes; i++) outputs[i] = self->outputs[i]: the values
\* written to the caller's buffer.
Layer_getOutputs(self) == [i \in 1..self.nnodes |-> self.outputs[i]]

\* Layer_getErrorTotal without the division by nnodes.
Layer_getErrorTotal_Sum(self) ==
    SumTo([i \in 1..self.nnodes |-> FMul(self.errors[i], self.errors[i])],
          1, self.nnodes)

\* total += e*e over the nodes; return (total / self->nnodes).
Layer_getErrorTotal(self) ==
    FDiv(SumTo([i \in 1..self.nnodes |->
                   FMul(self.errors[i], self.errors[i])], 1, self.nnodes),
         self.nnodes * ONE)

(***************************************************************************)
(* Update engine.                                                          *)
(***************************************************************************)
\* UpdateLayer without the two assignments that reset the accumulators.
UpdateLayer_NoReset(self, rate) ==
    [self EXCEPT
        !.biases    = [i \in 1..self.nbiases |->
                          FSub(self.biases[i], FMul(rate, self.u_biases[i]))],
        !.weights   = [i \in 1..self.nweights |->
                          FSub(self.weights[i], FMul(rate, self.u_weights[i]))]]

\* The two loops of Layer_update on one layer.
UpdateLayer(self, rate) ==
    [self EXCEPT
        !.biases    = [i \in 1..self.nbiases |->
                          FSub(self.biases[i], FMul(rate, self.u_biases[i]))],
        !.u_biases  = [i \in 1..self.nbiases |-> 0],
        !.weights   = [i \in 1..self.nweights |->
                          FSub(self.weights[i], FMul(rate, self.u_weights[i]))],
        !.u_weights = [i \in 1..self.nweights |-> 0]]

\* Layer_update without the recursive call: only self is updated.
Layer_update_SelfOnly(L, self, rate) ==
    [L EXCEPT ![self] = UpdateLayer(L[self], rate)]

\* if (self->lprev != NULL) Layer_update(self->lprev, rate);
RECURSIVE Layer_update(_, _, _)
Layer_update(L, self, rate) ==
    LET L1 == [L EXCEPT ![self] = UpdateLayer(L[self], rate)]
    IN  IF L[self].lprev # NULL
        THEN Layer_update(L1, L[self].lprev, rate)
        ELSE L1

(***************************************************************************)
(* Destruction.                                                            *)
(***************************************************************************)
\* free() on every buffer of self that is not NULL, then on the record.
FreeLayer(self) ==
    [self EXCEPT !.freed = [a \in DOMAIN self.freed |->
                               IF a \in self.nullptrs THEN self.freed[a]
                               ELSE self.freed[a] + 1]]

\* Layer_destroy that goes on to the predecessor, as Layer_update does.
RECURSIVE Layer_destroy_Chain(_, _)
Layer_destroy_Chain(L, self) ==
    LET L1 == [L EXCEPT ![self] = FreeLayer(L[self])]
    IN  IF L[self].lprev # NULL
        THEN Layer_destroy_Chain(L1, L[self].lprev)
        ELSE L1

Layer_destroy(L, self) == [L EXCEPT ![self] = FreeLayer(L[self])]

(***************************************************************************)
(* The driver: the arguments it passes.                                    *)
(***************************************************************************)
InputLayers(L)  == { l \in 1..Len(L) : L[l].lprev = NULL }
OutputLayers(L) == { l \in 1..Len(L) : L[l].lnext = NULL }

\* <<depth, width, height>> of an input layer.
InputShapes == { <<2, 1, 1>>, <<1, 2, 2>> }

FullNodes == { 1, 2 }

\* <<depth, width, height, kernsize, padding, stride>> of a convolutional
\* layer: a 1x1 kernel, a 3x3 kernel with padding that keeps a 2x2 image, a
\* 3x3 kernel with stride 2, an even kernel (refused), a 2x2 output of 1x1
\* kernels that fits a 2x2 image and is too wide for a 1x1 one, and a 1x2
\* output that fits a 2x2 image and is too high for a 1x1 one.
ConvShapes == { <<1, 1, 1, 1, 0, 1>>, <<1, 2, 2, 3, 1, 1>>,
                <<1, 1, 1, 3, 1, 2>>, <<1, 1, 1, 2, 1, 1>>,
                <<1, 2, 2, 1, 0, 1>>, <<1, 1, 2, 3, 1, 1>> }

\* std, the standard deviation of the initial weights.
Stds == { ONE }

\* Input vectors of n values: all 1.0, and all 0.0 but for -6.0 in the last
\* place.
InputVecs(n) ==
    { [i \in 1..n |-> ONE], [i \in 1..n |-> IF i = n THEN -(6 * ONE) ELSE 0] }

\* Target vectors for layer self: the first class (as mnist.c builds them),
\* and the layer's present outputs.
Targets(L, self) ==
    { [i \in 1..L[self].nnodes |-> IF i = 1 THEN ONE ELSE 0],
      L[self].outputs }

\* The learning rate: 0.5.
Rates == { ONE \div 2 }

\* The predecessors a factory is called with: the end of the chain, and, to
\* fail, NULL and (when there is one) the input layer once it has a successor.
FullPrevs(L) ==
    OutputLayers(L) \cup {NULL}
    \cup { l \in {1} : Len(L) >= 1 /\ L[l].lnext # NULL }

\* <<lprev, shape>> of the calls of Layer_create_conv: every shape at the end
\* of the chain, one shape with the predecessors that fail.
ConvCalls(L) ==
    (OutputLayers(L) \X ConvShapes)
    \cup ((FullPrevs(L) \ OutputLayers(L)) \X { <<1, 1, 1, 1, 0, 1>> })

Call(op, self, vals) == [op |-> op, self |-> self, vals |-> vals]

\* The last call met a calloc that returned NULL.
OutOfMemory == hist # <<>> /\ "failed" \in DOMAIN hist[Len(hist)]

\* The run goes on: no assert has failed, no allocation has failed, and
\* there are calls left.
Running == aborted = NoAssert /\ ~OutOfMemory /\ Len(hist) < MaxCalls

(***************************************************************************)
(* Actions: one per function of the API.  hist logs the calls that return. *)
(* A call whose assert fails ends the process: aborted names the assert    *)
(* and nothing else changes.                                               *)
(***************************************************************************)
Init ==
    /\ layers = <<>>
    /\ seed = Seed0
    /\ hist = <<>>
    /\ calls = <<>>
    /\ aborted = NoAssert

\* The driver builds one chain: its input layer comes first.
CreateInput ==
    /\ Running
    /\ layers = <<>>
    /\ \E sh \in InputShapes :
        /\ layers' = Layer_create_input(layers, sh[1], sh[2], sh[3])
        /\ hist' = Append(hist, Call("Layer_create_input", NULL, sh))
    /\ calls' = <<>>
    /\ UNCHANGED <<seed, aborted>>

CreateFull ==
    /\ Running
    /\ Len(layers) < MaxLayers
    /\ \E lprev \in FullPrevs(layers), n \in FullNodes, std \in Stds :
        IF FullAssert(layers, lprev) = NoAssert
        THEN LET r == Layer_create_full(layers, seed, lprev, n, std)
             IN  /\ layers' = r.layers
                 /\ seed' = r.seed
                 /\ hist' = Append(hist, Call("Layer_create_full", lprev,
                                              <<n, std>>))
                 /\ calls' = <<>>
                 /\ UNCHANGED aborted
        ELSE /\ aborted' = FullAssert(layers, lprev)
             /\ UNCHANGED <<layers, seed, hist, calls>>

CreateConv ==
    /\ Running
    /\ Len(layers) < MaxLayers
    /\ \E c \in ConvCalls(layers), std \in Stds :
        LET lprev == c[1]
            sh    == c[2]
            a     == ConvAssert(layers, lprev, sh[2], sh[3], sh[4], sh[5], sh[6])
        IN  IF a = NoAssert
            THEN LET r == Layer_create_conv(layers, seed, lprev, sh[1], sh[2],
                                            sh[3], sh[4], sh[5], sh[6], std)
                 IN  /\ layers' = r.layers
                     /\ seed' = r.seed
                     /\ hist' = Append(hist, Call("Layer_create_conv", lprev,
                                                  sh \o <<std>>))
                     /\ calls' = <<>>
                     /\ UNCHANGED aborted
            ELSE /\ aborted' = a
                 /\ UNCHANGED <<layers, seed, hist, calls>>

SetInputs ==
    /\ Running
    /\ \E self \in InputLayers(layers) \cup OutputLayers(layers) :
        \E values \in InputVecs(layers[self].nnodes) :
            IF SetInputsAssert(layers, self) = NoAssert
            THEN LET r == Layer_setInputs(layers, self, values)
                 IN  /\ layers' = r.L
                     /\ calls' = r.calls
                     /\ hist' = Append(hist, Call("Layer_setInputs", self,
                                                  values))
                     /\ UNCHANGED aborted
            ELSE /\ aborted' = SetInputsAssert(layers, self)
                 /\ UNCHANGED <<layers, hist, calls>>
    /\ UNCHANGED seed

\* The driver learns and updates at the end of its chain.
LearnOutputs ==
    /\ Running
    /\ \E self \in OutputLayers(layers) :
        \E values \in Targets(layers, self) :
            IF LearnOutputsAssert(layers, self) = NoAssert
            THEN LET r == Layer_learnOutputs(layers, self, values)
                 IN  /\ layers' = r.L
                     /\ calls' = r.calls
                     /\ hist' = Append(hist, Call("Layer_learnOutputs", self,
                                                  values))
                     /\ UNCHANGED aborted
            ELSE /\ aborted' = LearnOutputsAssert(layers, self)
                 /\ UNCHANGED <<layers, hist, calls>>
    /\ UNCHANGED seed

Update ==
    /\ Running
    /\ \E self \in OutputLayers(layers), rate \in Rates :
        /\ hist' = Append(hist, Call("Layer_update", self, <<rate>>))
        /\ layers' = Layer_update(layers, self, rate)
    /\ calls' = <<>>
    /\ UNCHANGED <<seed, aborted>>

\* The driver reads the error total of the layer it has just taught.
GetErrorTotal ==
    /\ Running
    /\ hist # <<>>
    /\ hist[Len(hist)].op = "Layer_learnOutputs"
    /\ \E self \in OutputLayers(layers) :
        hist' = Append(hist, [op   |-> "Layer_getErrorTotal",
                              self |-> self,
                              vals |-> <<>>,
                              ret  |-> Layer_getErrorTotal(layers[self])])
    /\ calls' = <<>>
    /\ UNCHANGED <<layers, seed, aborted>>

Next ==
    \/ CreateInput
    \/ CreateFull
    \/ CreateConv
    \/ SetInputs
    \/ LearnOutputs
    \/ GetErrorTotal
    \/ Update

Spec == Init /\ [][Next]_vars

\* Layer_create_input called again: the start of another chain.
CreateInputAgain ==
    /\ Running
    /\ layers # <<>>
    /\ Cardinality(InputLayers(layers)) < MaxChains
    /\ Len(layers) < MaxLayers
    /\ \E sh \in InputShapes :
        /\ layers' = Layer_create_input(layers, sh[1], sh[2], sh[3])
        /\ hist' = Append(hist, Call("Layer_create_input", NULL, sh))
    /\ calls' = <<>>
    /\ UNCHANGED <<seed, aborted>>

\* The API used on up to MaxChains chains at once.
NextChains == Next \/ CreateInputAgain

SpecChains == Init /\ [][NextChains]_vars

\* Layer_getOutputs on any layer, once between two other calls.
GetOutputs ==
    /\ Running
    /\ hist # <<>>
    /\ hist[Len(hist)].op # "Layer_getOutputs"
    /\ \E self \in 1..Len(layers) :
        hist' = Append(hist, [op   |-> "Layer_getOutputs",
                              self |-> self,
                              vals |-> <<>>,
                              ret  |-> Layer_getOutputs(layers[self])])
    /\ calls' = <<>>
    /\ UNCHANGED <<layers, seed, aborted>>

\* The API with the outputs of the layers read between the calls.
NextReaders == Next \/ GetOutputs

SpecReaders == Init /\ [][NextReaders]_vars

\* The layers that Layer_destroy has been called on.
Destroyed(L) == { l \in 1..Len(L) : L[l].freed["self"] > 0 }

\* Layer_destroy on a layer not yet destroyed, in any order: the end of the
\* driver.
Destroy ==
    /\ Running
    /\ \E self \in (1..Len(layers)) \ Destroyed(layers) :
        /\ layers' = Layer_destroy(layers, self)
        /\ hist' = Append(hist, Call("Layer_destroy", self, <<>>))
    /\ calls' = <<>>
    /\ UNCHANGED <<seed, aborted>>

\* The API while every layer is alive, then the destruction of the layers.
NextDestroy ==
    \/ Destroyed(layers) = {} /\ Next
    \/ Destroy

SpecDestroy == Init /\ [][NextDestroy]_vars

\* Layer_create_full with a standard deviation of 0.
CreateFullZero ==
    /\ Running
    /\ Len(layers) < MaxLayers
    /\ \E lprev \in FullPrevs(layers), n \in FullNodes :
        IF FullAssert(layers, lprev) = NoAssert
        THEN LET r == Layer_create_full(layers, seed, lprev, n, 0)
             IN  /\ layers' = r.layers
                 /\ seed' = r.seed
                 /\ hist' = Append(hist, Call("Layer_create_full", lprev,
                                              <<n, 0>>))
                 /\ calls' = <<>>
                 /\ UNCHANGED aborted
        ELSE /\ aborted' = FullAssert(layers, lprev)
             /\ UNCHANGED <<layers, seed, hist, calls>>

\* Layer_create_conv with a standard deviation of 0.
CreateConvZero ==
    /\ Running
    /\ Len(layers) < MaxLayers
    /\ \E c \in ConvCalls(layers) :
        LET lprev == c[1]
            sh    == c[2]
            a     == ConvAssert(layers, lprev, sh[2], sh[3], sh[4], sh[5], sh[6])
        IN  IF a = NoAssert
            THEN LET r == Layer_create_conv(layers, seed, lprev, sh[1], sh[2],
                                            sh[3], sh[4], sh[5], sh[6], 0)
                 IN  /\ layers' = r.layers
                     /\ seed' = r.seed
                     /\ hist' = Append(hist, Call("Layer_create_conv", lprev,
                                                  sh \o <<0>>))
                     /\ calls' = <<>>
                     /\ UNCHANGED aborted
            ELSE /\ aborted' = a
                 /\ UNCHANGED <<layers, seed, hist, calls>>

\* The construction of a chain, with either standard deviation, and the
\* outputs of its layers read before the chain is used.
NextFresh ==
    \/ CreateInput
    \/ CreateFull
    \/ CreateConv
    \/ CreateFullZero
    \/ CreateConvZero
    \/ GetOutputs

SpecFresh == Init /\ [][NextFresh]_vars

\* Shapes at the edge of what the asserts of Layer_create_conv let through:
\* a negative width and height, a stride of 0 and of -1, a kernel size of -1
\* and of 0.
ExtremeShapes == { <<1, -1, -1, 3, 1, 1>>, <<1, 1, 1, 3, 1, 0>>,
                   <<1, 2, 1, 3, 1, -1>>, <<1, 1, 1, -1, 0, 1>>,
                   <<1, 1, 1, 0, 0, 1>> }

\* Layer_create_conv at the end of the chain with one of the ExtremeShapes.
CreateConvExtreme ==
    /\ Running
    /\ Len(layers) < MaxLayers
    /\ \E lprev \in OutputLayers(layers), sh \in ExtremeShapes, std \in Stds :
        LET a == ConvAssert(layers, lprev, sh[2], sh[3], sh[4], sh[5], sh[6])
        IN  IF a = NoAssert
            THEN LET r == Layer_create_conv(layers, seed, lprev, sh[1], sh[2],
                                            sh[3], sh[4], sh[5], sh[6], std)
                 IN  /\ layers' = r.layers
                     /\ seed' = r.seed
                     /\ hist' = Append(hist, Call("Layer_create_conv", lprev,
                                                  sh \o <<std>>))
                     /\ calls' = <<>>
                     /\ UNCHANGED aborted
            ELSE /\ aborted' = a
                 /\ UNCHANGED <<layers, seed, hist, calls>>

\* The API with the extreme shapes among the requests.
NextExtremes == Next \/ CreateConvExtreme

SpecExtremes == Init /\ [][NextExtremes]_vars

\* i of the training loop: the samples learned so far.
TrainIndex ==
    Cardinality({ n \in 1..Len(hist) : hist[n].op = "Layer_learnOutputs" })

\* y[j] = (j == label)? 1 : 0
OneHot(n, label) == [j \in 1..n |-> IF j - 1 = label THEN ONE ELSE 0]

\* One turn of the training loop of main on the chain from linput to
\* loutput, with sample x and its label: Layer_setInputs, Layer_getOutputs,
\* Layer_learnOutputs, Layer_getErrorTotal and, if (i % batch_size) == 0,
\* Layer_update with rate/batch_size.  No assert of these calls can fail on
\* a chain of two layers or more.
TrainTurn(linput, loutput, x, label, rate) ==
    LET i   == TrainIndex
        y   == OneHot(layers[loutput].nnodes, label)
        f   == Layer_setInputs(layers, linput, x)
        b   == Layer_learnOutputs(f.L, loutput, y)
        r   == FDiv(rate, BatchSize * ONE)
        upd == (i % BatchSize) = 0
    IN  /\ layers' = IF upd THEN Layer_update(b.L, loutput, r) ELSE b.L
        /\ calls' = IF upd THEN <<>> ELSE b.calls
        /\ hist' = hist
              \o << Call("Layer_setInputs", linput, x),
                    [op |-> "Layer_getOutputs", self |-> loutput,
                     vals |-> <<>>, ret |-> Layer_getOutputs(f.L[loutput])],
                    Call("Layer_learnOutputs", loutput, y),
                    [op |-> "Layer_getErrorTotal", self |-> loutput,
                     vals |-> <<>>, ret |-> Layer_getErrorTotal(b.L[loutput])] >>
              \o (IF upd THEN <<Call("Layer_update", loutput, <<r>>)>>
                         ELSE <<>>)

\* for (i = 0; i < nepoch * train_size; i++) { ... }: the next turn.
Train ==
    /\ aborted = NoAssert
    /\ Len(layers) >= 2
    /\ TrainIndex < MaxSamples
    /\ \E linput \in InputLayers(layers), loutput \in OutputLayers(layers) :
        \E x \in InputVecs(layers[linput].nnodes), rate \in Rates,
           label \in {0, layers[loutput].nnodes - 1} :
            TrainTurn(linput, loutput, x, label, rate)
    /\ UNCHANGED <<seed, aborted>>

\* main of mnist.c: the chain is built, then trained.
NextTrain ==
    \/ TrainIndex = 0 /\ (CreateInput \/ CreateFull \/ CreateConv)
    \/ Train

SpecTrain == Init /\ [][NextTrain]_vars

\* The store through a NULL weights pointer in a factory's fill loop.
Segv == "SIGSEGV: self->weights[i] = std * nrnd()"

\* A call that met a failed allocation, and what it returned.
NoMemCall(op, self, vals, failed, ret) ==
    [op |-> op, self |-> self, vals |-> vals, failed |-> failed, ret |-> ret]

\* Layer_create_input when one calloc of Layer_create returns NULL: it
\* returns what Layer_create returns.
CreateInputNoMem ==
    /\ Running
    /\ Len(layers) < MaxLayers
    /\ \E sh \in InputShapes, n \in 1..Len(Allocs) :
        LET r == Layer_create_NoMem(layers, NULL, LAYER_INPUT, sh[1], sh[2],
                                    sh[3], 0, 0, Allocs[n])
        IN  /\ layers' = r.layers
            /\ hist' = Append(hist, NoMemCall("Layer_create_input", NULL, sh,
                                              Allocs[n], r.ret))
    /\ calls' = <<>>
    /\ UNCHANGED <<seed, aborted>>

\* What a factory does with the result r of Layer_create_NoMem: the assert
\* on self fails for NULL; the fill loop stores through self->weights, a
\* NULL pointer when that calloc failed (the store faults; rand may or may
\* not have been called before it); otherwise the record is returned.
FactoryNoMem(op, lprev, vals, failed, r, std) ==
    IF r.ret = NULL
    THEN /\ aborted' = op \o ": self != NULL"
         /\ UNCHANGED <<layers, seed, hist, calls>>
    ELSE IF failed = "weights" /\ r.layers[r.ret].nweights > 0
    THEN /\ aborted' = Segv
         /\ layers' = r.layers
         /\ seed' \in {seed, nrnd(seed).seed}
         /\ UNCHANGED <<hist, calls>>
    ELSE LET f == FillWeights(r.layers[r.ret].nweights, std, seed)
         IN  /\ layers' = [r.layers EXCEPT ![r.ret].weights = f.w]
             /\ seed' = f.seed
             /\ hist' = Append(hist, NoMemCall(op, lprev, vals, failed, r.ret))
             /\ calls' = <<>>
             /\ UNCHANGED aborted

\* Layer_create_full when one calloc of Layer_create returns NULL.
CreateFullNoMem ==
    /\ Running
    /\ Len(layers) < MaxLayers
    /\ \E lprev \in OutputLayers(layers), nn \in FullNodes, std \in Stds,
          n \in 1..Len(Allocs) :
        FactoryNoMem("Layer_create_full", lprev, <<nn, std>>, Allocs[n],
                     Layer_create_NoMem(layers, lprev, LAYER_FULL, nn, 1, 1,
                                        nn, nn * layers[lprev].nnodes,
                                        Allocs[n]),
                     std)

\* Layer_create_conv, with a shape it accepts, when one calloc of
\* Layer_create returns NULL.
CreateConvNoMem ==
    /\ Running
    /\ Len(layers) < MaxLayers
    /\ \E lprev \in OutputLayers(layers), sh \in ConvShapes, std \in Stds,
          n \in 1..Len(Allocs) :
        /\ ConvAssert(layers, lprev, sh[2], sh[3], sh[4], sh[5], sh[6])
             = NoAssert
        /\ LET r == Layer_create_NoMem(layers, lprev, LAYER_CONV, sh[1],
                        sh[2], sh[3], sh[1],
                        sh[1] * layers[lprev].depth * sh[4] * sh[4], Allocs[n])
               rk == IF r.ret = NULL THEN r
                     ELSE [r EXCEPT !.layers[r.ret].kernsize = sh[4],
                                    !.layers[r.ret].padding  = sh[5],
                                    !.layers[r.ret].stride   = sh[6]]
           IN  FactoryNoMem("Layer_create_conv", lprev, sh \o <<std>>,
                            Allocs[n], rk, std)

\* The API with allocations that may fail.
NextNoMem ==
    \/ Next
    \/ CreateInputNoMem
    \/ CreateFullNoMem
    \/ CreateConvNoMem

SpecNoMem == Init /\ [][NextNoMem]_vars

(***************************************************************************)
(* bnn.c: the plain sigmoid network.  Its functions have the names of      *)
(* cnn.c's; here they carry the prefix bnn_.  The arena, hist and aborted  *)
(* are used as for cnn.c.                                                  *)
(***************************************************************************)
\* 1.0 / (1.0 + exp(-x))
sigmoid(x) == IF x = NaN THEN NaN ELSE FDiv(ONE, FAdd(ONE, Exp(-x)))

\* y * (1.0 - y)
sigmoid_g(y) == FMul(y, FSub(ONE, y))

\* for (i = 0; i < nweights; i++) weights[i] = 0.1 * nrnd();
RECURSIVE bnn_FillWeights(_, _)
bnn_FillWeights(n, s) ==
    IF n = 0 THEN [w |-> <<>>, seed |-> s]
    ELSE LET r == bnn_FillWeights(n - 1, s)
             v == nrnd(r.seed)
         IN  [w |-> Append(r.w, Trunc(v.val, 10)), seed |-> v.seed]

\* Layer_create of bnn.c when its assert holds: the arena with the new
\* record and the predecessor linked, and the generator's state.  An input
\* layer has no biases and no weights (NULL pointers, counts of 0).
bnn_Layer_create(L, s, lprev, nnodes) ==
    LET self == Len(L) + 1
        nw   == IF lprev # NULL THEN L[lprev].nnodes * nnodes ELSE 0
        nb   == IF lprev # NULL THEN nnodes ELSE 0
        f    == bnn_FillWeights(nw, s)
        L1   == IF lprev # NULL THEN [L EXCEPT ![lprev].lnext = self] ELSE L
    IN  [layers |-> Append(L1,
            [lid       |-> IF lprev # NULL THEN L[lprev].lid + 1 ELSE 0,
             lprev     |-> lprev,
             lnext     |-> NULL,
             nnodes    |-> nnodes,
             outputs   |-> Zeros(nnodes),
             gradients |-> Zeros(nnodes),
             errors    |-> Zeros(nnodes),
             nbiases   |-> nb,
             biases    |-> Zeros(nb),
             u_biases  |-> Zeros(nb),
             nweights  |-> nw,
             weights   |-> f.w,
             u_weights |-> Zeros(nw)]),
         seed   |-> f.seed]

\* Layer_feedForw: Y = f(W * X + B), k++ over i then j.
bnn_Layer_feedForw(self, lprev) ==
    LET x == [i \in 1..self.nnodes |->
                FAdd(self.biases[i],
                     SumTo([j \in 1..lprev.nnodes |->
                              FMul(lprev.outputs[j],
                                   self.weights[(i - 1) * lprev.nnodes + j])],
                           1, lprev.nnodes))]
    IN  [self EXCEPT !.outputs   = [i \in 1..self.nnodes |-> sigmoid(x[i])],
                     !.gradients = [i \in 1..self.nnodes |->
                                       sigmoid_g(sigmoid(x[i]))]]

\* while (layer != NULL) { Layer_feedForw(layer); layer = layer->lnext; }
RECURSIVE bnn_ForwFrom(_, _)
bnn_ForwFrom(L, layer) ==
    IF layer = NULL THEN L
    ELSE bnn_ForwFrom([L EXCEPT ![layer] =
                          bnn_Layer_feedForw(L[layer], L[L[layer].lprev])],
                      L[layer].lnext)

bnn_Layer_setInputs(L, self, values) ==
    bnn_ForwFrom([L EXCEPT ![self].outputs =
                     [i \in 1..L[self].nnodes |-> values[i]]],
                 L[self].lnext)

\* Layer_feedBack on layer self of the arena: nothing for a layer without
\* predecessor; else the predecessor's errors are cleared and rebuilt, and
\* the accumulators of self grow.
bnn_Layer_feedBack(L, self) ==
    IF L[self].lprev = NULL THEN L
    ELSE LET me    == L[self]
             lprev == L[me.lprev]
             dnet  == Dnet(me)
         IN  [L EXCEPT
               ![me.lprev].errors = [j \in 1..lprev.nnodes |->
                   SumTo([i \in 1..me.nnodes |->
                            FMul(me.weights[(i - 1) * lprev.nnodes + j],
                                 dnet[i])], 1, me.nnodes)],
               ![self].u_weights = [k \in 1..me.nweights |->
                   FAdd(me.u_weights[k],
                        FMul(dnet[((k - 1) \div lprev.nnodes) + 1],
                             lprev.outputs[((k - 1) % lprev.nnodes) + 1]))],
               ![self].u_biases = [i \in 1..me.nbiases |->
                   FAdd(me.u_biases[i], dnet[i])]]

\* while (layer != NULL) { Layer_feedBack(layer); layer = layer->lprev; }
RECURSIVE bnn_BackFrom(_, _)
bnn_BackFrom(L, layer) ==
    IF layer = NULL THEN L
    ELSE bnn_BackFrom(bnn_Layer_feedBack(L, layer), L[layer].lprev)

\* Layer_learnOutputs: the errors of self are set, and the loop starts at
\* layer = self->lprev.
bnn_Layer_learnOutputs(L, self, values) ==
    bnn_BackFrom([L EXCEPT ![self].errors =
                     [i \in 1..L[self].nnodes |->
                         FSub(L[self].outputs[i], values[i])]],
                 L[self].lprev)

\* Layer_update: biases and weights of self, when it has them, then the
\* predecessor.
RECURSIVE bnn_Layer_update(_, _, _)
bnn_Layer_update(L, self, rate) ==
    LET L1 == [L EXCEPT ![self] = UpdateLayer(L[self], rate)]
    IN  IF L[self].lprev # NULL
        THEN bnn_Layer_update(L1, L[self].lprev, rate)
        ELSE L1

\* nnodes of a layer of the sigmoid network.
BnnNodes == { 1, 2 }

\* Layer_create(lprev, nnodes) at the end of the chain.
BnnCreate ==
    /\ Running
    /\ Len(layers) < MaxLayers
    /\ \E n \in BnnNodes :
        LET r == bnn_Layer_create(layers, seed, Len(layers), n)
        IN  /\ layers' = r.layers
            /\ seed' = r.seed
            /\ hist' = Append(hist, Call("Layer_create", Len(layers), <<n>>))
    /\ calls' = <<>>
    /\ UNCHANGED aborted

\* Layer_setInputs(linput, x).
BnnSetInputs ==
    /\ Running
    /\ layers # <<>>
    /\ \E values \in InputVecs(layers[1].nnodes) :
        /\ layers' = bnn_Layer_setInputs(layers, 1, values)
        /\ hist' = Append(hist, Call("Layer_setInputs", 1, values))
    /\ calls' = <<>>
    /\ UNCHANGED <<seed, aborted>>

\* Layer_learnOutputs(loutput, t), with every t[i] = 0 or every t[i] = 1.
BnnLearnOutputs ==
    /\ Running
    /\ layers # <<>>
    /\ \E t \in {0, ONE} :
        LET self == Len(layers)
        IN  IF layers[self].lprev = NULL
            THEN /\ aborted' = "Layer_learnOutputs: self->lprev != NULL"
                 /\ UNCHANGED <<layers, hist>>
            ELSE /\ layers' = bnn_Layer_learnOutputs(layers, self,
                                  [i \in 1..layers[self].nnodes |-> t])
                 /\ hist' = Append(hist, Call("Layer_learnOutputs", self, <<t>>))
                 /\ UNCHANGED aborted
    /\ calls' = <<>>
    /\ UNCHANGED seed

\* Layer_update(loutput, rate), with the rate 1.0 of main.
BnnUpdate ==
    /\ Running
    /\ layers # <<>>
    /\ layers' = bnn_Layer_update(layers, Len(layers), ONE)
    /\ hist' = Append(hist, Call("Layer_update", Len(layers), <<ONE>>))
    /\ calls' = <<>>
    /\ UNCHANGED <<seed, aborted>>

NextBnn ==
    \/ BnnCreate
    \/ BnnSetInputs
    \/ BnnLearnOutputs
    \/ BnnUpdate

SpecBnn == Init /\ [][NextBnn]_vars

(***************************************************************************)
(* rnn.c: the recurrent network.  outputs and errors hold ntimes slots of  *)
(* nnodes values, slot 0 (the present step) first.                         *)
(***************************************************************************)
\* RNNLayer_create when its assert holds: xweights are filled first, then
\* hweights, each with 0.1 * nrnd().  An input layer has no weights and no
\* biases.
RNNLayer_create(L, s, lprev, nnodes, ntimes) ==
    LET self == Len(L) + 1
        nx   == IF lprev # NULL THEN L[lprev].nnodes * nnodes ELSE 0
        nh   == IF lprev # NULL THEN nnodes * nnodes ELSE 0
        nb   == IF lprev # NULL THEN nnodes ELSE 0
        fx   == bnn_FillWeights(nx, s)
        fh   == bnn_FillWeights(nh, fx.seed)
        L1   == IF lprev # NULL THEN [L EXCEPT ![lprev].lnext = self] ELSE L
    IN  [layers |-> Append(L1,
            [lid        |-> IF lprev # NULL THEN L[lprev].lid + 1 ELSE 0,
             lprev      |-> lprev,
             lnext      |-> NULL,
             nnodes     |-> nnodes,
             ntimes     |-> ntimes,
             outputs    |-> Zeros(nnodes * ntimes),
             errors     |-> Zeros(nnodes * ntimes),
             temp       |-> Zeros(nnodes),
             nxweights  |-> nx,
             xweights   |-> fx.w,
             u_xweights |-> Zeros(nx),
             nhweights  |-> nh,
             hweights   |-> fh.w,
             u_hweights |-> Zeros(nh),
             nbiases    |-> nb,
             biases     |-> Zeros(nb),
             u_biases   |-> Zeros(nb)]),
         seed   |-> fh.seed]

\* for (i = 0; i < nnodes; i++) outputs[i] = 0;
RNNLayer_reset(self) ==
    [self EXCEPT !.outputs = [k \in 1..Len(self.outputs) |->
                                 IF k <= self.nnodes THEN 0 ELSE self.outputs[k]]]

\* "Save the previous values": for t from ntimes-1 down to 1, slot t takes
\* the values of slot t-1.  Slot 0 is left as it is.
SavePrevious(v, nnodes) ==
    [k \in 1..Len(v) |-> IF k > nnodes THEN v[k - nnodes] ELSE v[k]]

\* h of node i (from 1): Bh + Wx * X + Wh * H, read from outputs o of self.
Hidden(self, lprev, o, i) ==
    FAdd(FAdd(self.biases[i],
              SumTo([j \in 1..lprev.nnodes |->
                       FMul(lprev.outputs[j],
                            self.xweights[(i - 1) * lprev.nnodes + j])],
                    1, lprev.nnodes)),
         SumTo([j \in 1..self.nnodes |->
                  FMul(o[j], self.hweights[(i - 1) * self.nnodes + j])],
               1, self.nnodes))

\* RNNLayer_feedForw with outputs[i] = tanh(h) stored inside the loop over
\* the nodes: node i reads the new outputs of the nodes before it.
RECURSIVE InPlace(_, _, _, _)
InPlace(self, lprev, o, i) ==
    IF i > self.nnodes THEN o
    ELSE InPlace(self, lprev,
                 [o EXCEPT ![i] = Tanh(Hidden(self, lprev, o, i))], i + 1)

RNNLayer_feedForw_InPlace(self, lprev) ==
    LET o1 == SavePrevious(self.outputs, self.nnodes)
        o2 == InPlace(self, lprev, o1, 1)
    IN  [self EXCEPT !.temp    = [i \in 1..self.nnodes |-> 0],
                     !.outputs = o2]

\* RNNLayer_feedForw: the slots are shifted, every h is computed into temp
\* from the outputs as they are after the shift, and then slot 0 is replaced
\* by tanh(temp).
RNNLayer_feedForw(self, lprev) ==
    LET o1   == SavePrevious(self.outputs, self.nnodes)
        temp == [i \in 1..self.nnodes |-> Hidden(self, lprev, o1, i)]
    IN  [self EXCEPT !.temp    = temp,
                     !.outputs = [k \in 1..Len(o1) |->
                                     IF k <= self.nnodes THEN Tanh(temp[k])
                                     ELSE o1[k]]]

\* while (layer != NULL) { RNNLayer_feedForw(layer); layer = layer->lnext; }
RECURSIVE RNN_ForwFrom(_, _)
RNN_ForwFrom(L, layer) ==
    IF layer = NULL THEN L
    ELSE RNN_ForwFrom([L EXCEPT ![layer] =
                          RNNLayer_feedForw(L[layer], L[L[layer].lprev])],
                      L[layer].lnext)

\* RNNLayer_setInputs: the input layer's slots are shifted, slot 0 takes the
\* values, and the layers after it are fed.
RNNLayer_setInputs(L, self, values) ==
    LET o1 == SavePrevious(L[self].outputs, L[self].nnodes)
    IN  RNN_ForwFrom([L EXCEPT ![self].outputs =
                         [k \in 1..Len(o1) |->
                             IF k <= L[self].nnodes THEN values[k] ELSE o1[k]]],
                     L[self].lnext)

\* The body of the loop over i of RNNLayer_feedBack, for slot t and node i
\* (both from 0), on st = [self, lprev].
BackNode(st, t, i) ==
    LET self  == st.self
        lprev == st.lprev
        n     == self.nnodes
        pn    == lprev.nnodes
        i0    == t * n
        i1    == (t + 1) * n
        j0    == t * pn
        dnet  == FMul(self.errors[i0 + i + 1], tanh_g(self.outputs[i0 + i + 1]))
        doX   == (t + 1) < lprev.ntimes
        doH   == (t + 1) < self.ntimes
    IN  [self  |-> [self EXCEPT
            !.u_xweights = [k \in 1..self.nxweights |->
                IF doX /\ k > i * pn /\ k <= (i + 1) * pn
                THEN FAdd(@[k], FMul(dnet, lprev.outputs[j0 + k - i * pn]))
                ELSE @[k]],
            !.errors = [k \in 1..Len(self.errors) |->
                IF doH /\ k > i1 /\ k <= i1 + n
                THEN FAdd(@[k], FMul(self.hweights[i * n + k - i1], dnet))
                ELSE @[k]],
            !.u_hweights = [k \in 1..self.nhweights |->
                IF doH /\ k > i * n /\ k <= (i + 1) * n
                THEN FAdd(@[k], FMul(dnet, self.outputs[i1 + k - i * n]))
                ELSE @[k]],
            !.u_biases = [@ EXCEPT ![i + 1] = FAdd(@, dnet)]],
         lprev |-> [lprev EXCEPT
            !.errors = [k \in 1..Len(lprev.errors) |->
                IF doX /\ k > j0 /\ k <= j0 + pn
                THEN FAdd(@[k], FMul(self.xweights[i * pn + k - j0], dnet))
                ELSE @[k]]]]

\* The loops over t and i of RNNLayer_feedBack: the first k bodies, t-major.
RECURSIVE BackLoop(_, _)
BackLoop(st, k) ==
    IF k = 0 THEN st
    ELSE BackNode(BackLoop(st, k - 1),
                  (k - 1) \div st.self.nnodes, (k - 1) % st.self.nnodes)

\* RNNLayer_feedBack on layer self of the arena: nothing for a layer without
\* predecessor; else slot 0 of the predecessor's errors is cleared, the loops
\* run, and the errors of self are shifted.
RNNLayer_feedBack(L, self) ==
    IF L[self].lprev = NULL THEN L
    ELSE LET p   == L[self].lprev
             lp0 == [L[p] EXCEPT !.errors = [k \in 1..Len(@) |->
                                    IF k <= L[p].nnodes THEN 0 ELSE @[k]]]
             st  == BackLoop([self |-> L[self], lprev |-> lp0],
                             L[self].ntimes * L[self].nnodes)
         IN  [L EXCEPT ![p]    = st.lprev,
                       ![self] = [st.self EXCEPT !.errors =
                                     SavePrevious(st.self.errors, st.self.nnodes)]]

\* while (layer != NULL) { RNNLayer_feedBack(layer); layer = layer->lprev; }
RECURSIVE RNN_BackFrom(_, _)
RNN_BackFrom(L, layer) ==
    IF layer = NULL THEN L
    ELSE RNN_BackFrom(RNNLayer_feedBack(L, layer), L[layer].lprev)

\* RNNLayer_learnOutputs: slot 0 of the errors of self is set, and the loop
\* starts at layer = self.
RNNLayer_learnOutputs(L, self, values) ==
    RNN_BackFrom([L EXCEPT ![self].errors =
                     [k \in 1..Len(@) |->
                         IF k <= L[self].nnodes
                         THEN FSub(L[self].outputs[k], values[k]) ELSE @[k]]],
                 self)

\* The three loops of RNNLayer_update on one layer.
RNN_UpdateLayer(self, rate) ==
    [self EXCEPT
        !.biases     = [i \in 1..self.nbiases |->
                           FSub(self.biases[i], FMul(rate, self.u_biases[i]))],
        !.u_biases   = Zeros(self.nbiases),
        !.xweights   = [i \in 1..self.nxweights |->
                           FSub(self.xweights[i], FMul(rate, self.u_xweights[i]))],
        !.u_xweights = Zeros(self.nxweights),
        !.hweights   = [i \in 1..self.nhweights |->
                           FSub(self.hweights[i], FMul(rate, self.u_hweights[i]))],
        !.u_hweights = Zeros(self.nhweights)]

RECURSIVE RNNLayer_update(_, _, _)
RNNLayer_update(L, self, rate) ==
    LET L1 == [L EXCEPT ![self] = RNN_UpdateLayer(L[self], rate)]
    IN  IF L[self].lprev # NULL
        THEN RNNLayer_update(L1, L[self].lprev, rate)
        ELSE L1

\* nnodes of a layer of the recurrent network.
RnnNodes == { 1, 2 }

\* RNNLayer_create(lprev, nnodes, ntimes) at the end of the chain: main gives
\* every layer the same ntimes.
RnnCreate ==
    /\ Running
    /\ Len(layers) < MaxLayers
    /\ \E n \in RnnNodes :
       \E ntimes \in IF layers = <<>> THEN 1..MaxTimes ELSE {layers[1].ntimes} :
        LET r == RNNLayer_create(layers, seed, Len(layers), n, ntimes)
        IN  /\ layers' = r.layers
            /\ seed' = r.seed
            /\ hist' = Append(hist, Call("RNNLayer_create", Len(layers),
                                         <<n, ntimes>>))
    /\ calls' = <<>>
    /\ UNCHANGED aborted

\* RNNLayer_reset on one layer.
RnnReset ==
    /\ Running
    /\ \E self \in 1..Len(layers) :
        /\ layers' = [layers EXCEPT ![self] = RNNLayer_reset(layers[self])]
        /\ hist' = Append(hist, Call("RNNLayer_reset", self, <<>>))
    /\ calls' = <<>>
    /\ UNCHANGED <<seed, aborted>>

\* RNNLayer_setInputs(linput, x).
RnnSetInputs ==
    /\ Running
    /\ layers # <<>>
    /\ \E values \in InputVecs(layers[1].nnodes) :
        /\ layers' = RNNLayer_setInputs(layers, 1, values)
        /\ hist' = Append(hist, Call("RNNLayer_setInputs", 1, values))
    /\ calls' = <<>>
    /\ UNCHANGED <<seed, aborted>>

\* RNNLayer_learnOutputs(loutput, r), with every r[i] = 0 or every r[i] = 1.
RnnLearnOutputs ==
    /\ Running
    /\ layers # <<>>
    /\ \E r \in {0, ONE} :
        LET self == Len(layers)
        IN  IF layers[self].lprev = NULL
            THEN /\ aborted' = "RNNLayer_learnOutputs: self->lprev != NULL"
                 /\ UNCHANGED <<layers, hist>>
            ELSE /\ layers' = RNNLayer_learnOutputs(layers, self,
                                  [i \in 1..layers[self].nnodes |-> r])
                 /\ hist' = Append(hist, Call("RNNLayer_learnOutputs", self,
                                              <<r>>))
                 /\ UNCHANGED aborted
    /\ calls' = <<>>
    /\ UNCHANGED seed

\* RNNLayer_update(loutput, rate).
RnnUpdate ==
    /\ Running
    /\ layers # <<>>
    /\ \E rate \in Rates :
        /\ layers' = RNNLayer_update(layers, Len(layers), rate)
        /\ hist' = Append(hist, Call("RNNLayer_update", Len(layers), <<rate>>))
    /\ calls' = <<>>
    /\ UNCHANGED <<seed, aborted>>

NextRnn ==
    \/ RnnCreate
    \/ RnnReset
    \/ RnnSetInputs
    \/ RnnLearnOutputs
    \/ RnnUpdate

SpecRnn == Init /\ [][NextRnn]_vars

\* Values of the weights of a network that has been trained: 1.0 and -1.0.
TrainedWeights == { -ONE, ONE }

\* The network of main with one input node and one layer of two nodes, as
\* RNNLayer_create builds it, with the weights training has left: the
\* hweights are any of TrainedWeights, the xweights 1.0 and -1.0.
InitTrained ==
    /\ \E ntimes \in 1..MaxTimes :
       \E hw \in [1..4 -> TrainedWeights] :
        LET c1 == RNNLayer_create(<<>>, Seed0, NULL, 1, ntimes)
            c2 == RNNLayer_create(c1.layers, c1.seed, 1, 2, ntimes)
        IN  /\ layers = [c2.layers EXCEPT ![2].xweights = <<ONE, -ONE>>,
                                         ![2].hweights = hw]
            /\ seed = c2.seed
    /\ hist = <<>>
    /\ calls = <<>>
    /\ aborted = NoAssert

\* The trained network is run: inputs are fed and layers are reset.
NextTrained ==
    \/ RnnSetInputs
    \/ RnnReset

SpecTrained == InitTrained /\ [][NextTrained]_vars

(***************************************************************************)
(* Properties.                                                             *)
(***************************************************************************)
Last == hist[Len(hist)]

\* The last call that returned is a Layer_setInputs: the buffers are those
\* the forward pass left.
AfterSetInputs == hist # <<>> /\ Last.op = "Layer_setInputs"

FullLayers == { l \in 1..Len(layers) : layers[l].ltype = LAYER_FULL }
ConvLayers == { l \in 1..Len(layers) : layers[l].ltype = LAYER_CONV }

Prev(l) == layers[layers[l].lprev]

\* The pre-activation of a convolutional layer as the documentation states
\* it: the weight of (z1, z0, dy, dx) is at ((z1*prevDepth+z0)*kernsize+dy)*
\* kernsize+dx, the input of (z0, y, x) at (z0*prevHeight+y)*prevWidth+x.
StatedPreAct_conv(self, lprev) ==
    LET k == self.kernsize
        Window(y1, x1) ==
            { t \in (0..(lprev.depth - 1)) \X (0..(k - 1)) \X (0..(k - 1)) :
                /\ y1 * self.stride - self.padding + t[2] \in 0..(lprev.height - 1)
                /\ x1 * self.stride - self.padding + t[3] \in 0..(lprev.width - 1) }
        At(z1, y1, x1) ==
            LET W == Window(y1, x1)
                term == [t \in W |->
                    FMul(self.weights[((z1 * lprev.depth + t[1]) * k + t[2]) * k
                                      + t[3] + 1],
                         lprev.outputs[(t[1] * lprev.height
                                        + (y1 * self.stride - self.padding + t[2]))
                                       * lprev.width
                                       + (x1 * self.stride - self.padding + t[3])
                                       + 1])]
            IN  FAdd(self.biases[z1 + 1], SumSet(W, term))
    IN  [i1 \in 1..self.nnodes |->
            At((i1 - 1) \div (self.width * self.height),
               ((i1 - 1) \div self.width) % self.height,
               (i1 - 1) % self.width)]

\* C1: after a forward pass every convolutional layer holds, at every output
\* (z1, y1, x1), relu of the bias of z1 plus the sum over z0, dy, dx (clipped to
\* the image) of weight[z1, z0, dy, dx] * prev.outputs[z0, y, x], with one
\* kernel per (z1, z0) pair.
C1_ConvForwardPerPairKernel ==
    AfterSetInputs =>
        \A l \in ConvLayers :
            layers[l].outputs =
                [i \in 1..layers[l].nnodes |->
                    relu(StatedPreAct_conv(layers[l], Prev(l))[i])]

\* The row-major pre-activation: biases[i] + sum over j of
\* weights[i*prevNodes + j] * prev.outputs[j].
StatedPreAct_full(self, lprev) ==
    [i1 \in 1..self.nnodes |->
        FAdd(self.biases[i1],
             SumTo([j1 \in 1..lprev.nnodes |->
                       FMul(self.weights[(i1 - 1) * lprev.nnodes + j1],
                            lprev.outputs[j1])],
                   1, lprev.nnodes))]

\* C2: after a forward pass, the pre-activation of every fully-connected layer
\* is the row-major one, and the loops read the weights 0..nweights-1 in this
\* order, each exactly once.
C2_FullPreActivationRowMajor ==
    AfterSetInputs =>
        \A l \in FullLayers :
            /\ PreAct_full(layers[l], Prev(l)) = StatedPreAct_full(layers[l], Prev(l))
            /\ layers[l].outputs =
                    IF layers[l].lnext = NULL
                    THEN Softmax(StatedPreAct_full(layers[l], Prev(l)))
                    ELSE [i \in 1..layers[l].nnodes |->
                            Tanh(StatedPreAct_full(layers[l], Prev(l))[i])]
            /\ LET taps == FullTaps(layers[l], Prev(l))
               IN  /\ Len(taps) = layers[l].nweights
                   /\ \A n \in 1..Len(taps) :
                        /\ taps[n][3] = n - 1
                        /\ taps[n][3] = taps[n][1] * Prev(l).nnodes + taps[n][2]

\* A forward pass has run through a fully-connected layer of two nodes over
\* two or more inputs, not all zero, with weights that differ.
C2_Witness ==
    /\ AfterSetInputs
    /\ \E l \in FullLayers :
        /\ layers[l].nnodes = 2
        /\ Prev(l).nnodes >= 2
        /\ \E j \in 1..Prev(l).nnodes : Prev(l).outputs[j] # 0
        /\ layers[l].weights[1] # layers[l].weights[2]
        /\ layers[l].weights[2] # layers[l].weights[3]

\* A Layer_learnOutputs call returns in this step.
LearnStep == hist' # hist /\ hist'[Len(hist')].op = "Layer_learnOutputs"

\* A Layer_update call returns in this step.
UpdateStep == hist' # hist /\ hist'[Len(hist')].op = "Layer_update"

Real(v) == v # 0 /\ v # NaN

\* C3: in a backward pass every fully-connected layer, with dnet[i] =
\* errors[i]*gradients[i], leaves in prev.errors[j] the sum over i of
\* weights[i,j]*dnet[i], adds dnet[i]*prev.outputs[j] to u_weights[i,j] and
\* dnet[i] to u_biases[i]; the weights are those from before the call, which
\* it does not change.
C3_FullBackward ==
    [][LearnStep =>
        \A l \in FullLayers :
            LET p    == layers[l].lprev
                n    == layers[l].nnodes
                pn   == layers[p].nnodes
                dnet == [i \in 1..n |->
                            FMul(layers'[l].errors[i], layers[l].gradients[i])]
            IN  /\ \A j \in 1..pn :
                     layers'[p].errors[j] =
                        SumTo([i \in 1..n |->
                                  FMul(layers[l].weights[(i - 1) * pn + j], dnet[i])],
                              1, n)
                /\ \A i \in 1..n, j \in 1..pn :
                     layers'[l].u_weights[(i - 1) * pn + j] =
                        FAdd(layers[l].u_weights[(i - 1) * pn + j],
                             FMul(dnet[i], layers[p].outputs[j]))
                /\ \A i \in 1..n :
                     layers'[l].u_biases[i] = FAdd(layers[l].u_biases[i], dnet[i])
                /\ layers'[l].weights = layers[l].weights
      ]_vars

\* A backward pass has gone through a fully-connected layer of two nodes over
\* two or more inputs and left errors in its predecessor and updates in its
\* accumulators.
C3_Witness ==
    /\ hist # <<>> /\ Last.op = "Layer_learnOutputs"
    /\ \E l \in FullLayers :
        /\ layers[l].nnodes = 2
        /\ Prev(l).nnodes >= 2
        /\ \E j \in 1..Prev(l).nnodes : Real(Prev(l).errors[j])
        /\ \E k \in 1..layers[l].nweights : Real(layers[l].u_weights[k])
        /\ \E i \in 1..layers[l].nbiases : Real(layers[l].u_biases[i])

\* C4: in a backward pass every convolutional layer goes through exactly the
\* triples (output index, predecessor index, weight index) that its forward
\* step reads: it leaves in prev.errors[p] the sum of weights[w]*dnet[i] over
\* the triples with that p, adds to u_weights[w] the sum of
\* dnet[i]*prev.outputs[p] over the triples with that w, and adds to
\* u_biases[z1] the sum of dnet over the slice z1; every triple is in range,
\* so a padded position is in none.
C4_ConvBackwardMirrorsForward ==
    [][LearnStep =>
        \A l \in ConvLayers :
            LET p     == layers[l].lprev
                taps  == ForwTaps_conv(layers[l], layers[p])
                slice == layers[l].width * layers[l].height
                dnet  == [i \in 1..layers[l].nnodes |->
                            FMul(layers'[l].errors[i], layers[l].gradients[i])]
                perr  == [t \in taps |->
                            FMul(layers[l].weights[t[3] + 1], dnet[t[1] + 1])]
                dw    == [t \in taps |->
                            FMul(dnet[t[1] + 1], layers[p].outputs[t[2] + 1])]
            IN  /\ BackTaps_conv(layers[l], layers[p]) = taps
                /\ \A t \in taps : /\ t[1] \in 0..(layers[l].nnodes - 1)
                                   /\ t[2] \in 0..(layers[p].nnodes - 1)
                                   /\ t[3] \in 0..(layers[l].nweights - 1)
                /\ \A p1 \in 1..layers[p].nnodes :
                     layers'[p].errors[p1] =
                        SumSet({t \in taps : t[2] = p1 - 1}, perr)
                /\ \A q1 \in 1..layers[l].nweights :
                     layers'[l].u_weights[q1] =
                        FAdd(layers[l].u_weights[q1],
                             SumSet({t \in taps : t[3] = q1 - 1}, dw))
                /\ \A z \in 1..layers[l].nbiases :
                     layers'[l].u_biases[z] =
                        FAdd(layers[l].u_biases[z],
                             SumTo(dnet, (z - 1) * slice + 1, z * slice))
      ]_vars

\* A backward pass has gone through a padded convolutional layer and left
\* errors in its predecessor and updates in its accumulators.
C4_Witness ==
    /\ hist # <<>> /\ Last.op = "Layer_learnOutputs"
    /\ \E l \in ConvLayers :
        /\ layers[l].padding > 0
        /\ \E j \in 1..Prev(l).nnodes : Real(Prev(l).errors[j])
        /\ \E k \in 1..layers[l].nweights : Real(layers[l].u_weights[k])
        /\ \E i \in 1..layers[l].nbiases : Real(layers[l].u_biases[i])

\* The layers from self back to the input layer.
RECURSIVE ChainBack(_, _)
ChainBack(L, self) ==
    IF self = NULL THEN {} ELSE {self} \cup ChainBack(L, L[self].lprev)

\* C5: one Layer_update(outputLayer, rate) sets, in every layer of the chain,
\* every bias and weight to its value minus rate times its accumulator (as it
\* was before the call) and every accumulator to zero.
C5_UpdateWholeChain ==
    [][UpdateStep =>
        LET c    == hist'[Len(hist')]
            rate == c.vals[1]
        IN  /\ ChainBack(layers, c.self) = 1..Len(layers)
            /\ \A l \in ChainBack(layers, c.self) :
                /\ layers'[l].biases =
                     [i \in 1..layers[l].nbiases |->
                        FSub(layers[l].biases[i], FMul(rate, layers[l].u_biases[i]))]
                /\ layers'[l].weights =
                     [i \in 1..layers[l].nweights |->
                        FSub(layers[l].weights[i], FMul(rate, layers[l].u_weights[i]))]
                /\ layers'[l].u_biases = Zeros(layers[l].nbiases)
                /\ layers'[l].u_weights = Zeros(layers[l].nweights)
      ]_vars

\* An update has just applied accumulated gradients to a layer that is not
\* the one it was called on.
C5_Witness ==
    /\ hist # <<>> /\ Last.op = "Layer_update"
    /\ \E l \in 1..Len(layers) :
        /\ l # Last.self
        /\ \E i \in 1..layers[l].nbiases : Real(layers[l].biases[i])
        /\ layers[l].u_biases = Zeros(layers[l].nbiases)
        /\ layers[l].u_weights = Zeros(layers[l].nweights)

\* The same layers with every accumulator zero.
ZeroAcc(L) ==
    [l \in 1..Len(L) |-> [L[l] EXCEPT !.u_weights = Zeros(L[l].nweights),
                                      !.u_biases  = Zeros(L[l].nbiases)]]

\* One sample alone: set-inputs then learn-outputs from the parameters of L
\* with zeroed accumulators.
Alone(L, in, x, out, t) ==
    Layer_learnOutputs(Layer_setInputs(ZeroAcc(L), in, x).L, out, t).L

AddSeq(a, b) == [i \in 1..Len(a) |-> FAdd(a[i], b[i])]

\* The history ends with set-inputs, learn-outputs, set-inputs,
\* learn-outputs, and before them every learn-outputs was followed by an
\* update, so that the accumulators were zero before the first of the four.
TwoSamples ==
    LET n == Len(hist)
    IN  /\ n >= 4
        /\ hist[n - 3].op = "Layer_setInputs"
        /\ hist[n - 2].op = "Layer_learnOutputs"
        /\ hist[n - 1].op = "Layer_setInputs"
        /\ hist[n].op = "Layer_learnOutputs"
        /\ \A i \in 1..(n - 4) :
              hist[i].op = "Layer_learnOutputs" =>
                 \E j \in (i + 1)..(n - 4) : hist[j].op = "Layer_update"

\* C6: a backward pass adds to every accumulator what the same pass leaves
\* in it when started from zeroed accumulators (it never overwrites), and
\* after two set-inputs/learn-outputs pairs with no update between them,
\* started from zero accumulators, every accumulator is the sum of the
\* accumulators of each sample run alone from the same parameters.
C6_MinibatchLinearity ==
    /\ [][LearnStep =>
            LET c == hist'[Len(hist')]
                a == Layer_learnOutputs(ZeroAcc(layers), c.self, c.vals).L
            IN  \A l \in 1..Len(layers) :
                  /\ layers'[l].u_weights =
                        AddSeq(layers[l].u_weights, a[l].u_weights)
                  /\ layers'[l].u_biases =
                        AddSeq(layers[l].u_biases, a[l].u_biases)
         ]_vars
    /\ [](TwoSamples =>
            LET n  == Len(hist)
                a1 == Alone(layers, hist[n - 3].self, hist[n - 3].vals,
                            hist[n - 2].self, hist[n - 2].vals)
                a2 == Alone(layers, hist[n - 1].self, hist[n - 1].vals,
                            hist[n].self, hist[n].vals)
            IN  \A l \in 1..Len(layers) :
                  /\ layers[l].u_weights =
                        AddSeq(a1[l].u_weights, a2[l].u_weights)
                  /\ layers[l].u_biases =
                        AddSeq(a1[l].u_biases, a2[l].u_biases))

\* Two samples with different inputs have been accumulated, each with a
\* contribution of its own.
C6_Witness ==
    /\ TwoSamples
    /\ LET n  == Len(hist)
           a1 == Alone(layers, hist[n - 3].self, hist[n - 3].vals,
                       hist[n - 2].self, hist[n - 2].vals)
           a2 == Alone(layers, hist[n - 1].self, hist[n - 1].vals,
                       hist[n].self, hist[n].vals)
       IN  /\ hist[n - 3].vals # hist[n - 1].vals
           /\ \E l \in 1..Len(layers) : \E k \in 1..layers[l].nweights :
                /\ Real(a1[l].u_weights[k])
                /\ Real(a2[l].u_weights[k])
                /\ a1[l].u_weights[k] # a2[l].u_weights[k]
                /\ layers[l].u_weights[k] # NaN

\* C7: after a forward pass a fully-connected layer holds the softmax of its
\* pre-activations with every gradient 1 when it has no successor at that
\* moment, and otherwise their tanh with gradients 1 - outputs^2; a
\* convolutional layer holds ReLU, also when it is the last layer.
C7_ActivationByChainPosition ==
    AfterSetInputs =>
        /\ \A l \in FullLayers :
            LET x == PreAct_full(layers[l], Prev(l))
                n == layers[l].nnodes
            IN  IF layers[l].lnext = NULL
                THEN /\ layers[l].outputs = Softmax(x)
                     /\ layers[l].gradients = [i \in 1..n |-> ONE]
                ELSE /\ layers[l].outputs = [i \in 1..n |-> Tanh(x[i])]
                     /\ layers[l].gradients =
                          [i \in 1..n |->
                             FSub(ONE, FMul(layers[l].outputs[i],
                                            layers[l].outputs[i]))]
        /\ \A l \in ConvLayers :
            LET v == PreAct_conv(layers[l], Prev(l))
            IN  layers[l].outputs = [i \in 1..layers[l].nnodes |-> relu(v[i])]

\* A fully-connected layer went through a forward pass as the last layer,
\* then got a successor, and in the pass after that holds tanh values that
\* are not the softmax ones.
C7_Witness ==
    /\ AfterSetInputs
    /\ \E i \in 1..Len(hist), j \in 1..Len(hist) :
        /\ i < j
        /\ hist[i].op = "Layer_setInputs"
        /\ hist[j].op = "Layer_create_full"
        /\ hist[j].self \in FullLayers
        /\ Cardinality({ k \in 1..(i - 1) :
                hist[k].op \in {"Layer_create_input", "Layer_create_full",
                                "Layer_create_conv"} }) >= hist[j].self
        /\ LET l == hist[j].self
               x == PreAct_full(layers[l], Prev(l))
           IN  /\ layers[l].lnext # NULL
               /\ layers[l].outputs # Softmax(x)
               /\ \E k \in 1..layers[l].nnodes : Real(layers[l].outputs[k])

\* The fully-connected layers with no successor.
SoftmaxLayers == { l \in FullLayers : layers[l].lnext = NULL }

NoNaN(x) == \A i \in 1..Len(x) : x[i] # NaN

\* The largest entry of x.
MaxOf(x) == CHOOSE m \in { x[i] : i \in 1..Len(x) } :
                \A i \in 1..Len(x) : x[i] <= m

\* C8: the value the softmax of the output layer subtracts from every
\* pre-activation is the maximum of the pre-activations, so the largest
\* exponent is 0.
C8_SoftmaxShiftIsMax ==
    AfterSetInputs =>
        \A l \in SoftmaxLayers :
            LET x == PreAct_full(layers[l], Prev(l))
            IN  NoNaN(x) =>
                  /\ SoftmaxMax(x) = MaxOf(x)
                  /\ \E i \in 1..Len(x) : FSub(x[i], SoftmaxMax(x)) = 0

\* C9: after set-inputs the outputs of a fully-connected output layer are
\* numbers, none negative, that sum to 1 up to the rounding of one division
\* per node, and a single-node output layer outputs exactly 1.
C9_SoftmaxSumsToOne ==
    AfterSetInputs =>
        \A l \in SoftmaxLayers :
            LET x == PreAct_full(layers[l], Prev(l))
                y == layers[l].outputs
                n == layers[l].nnodes
            IN  NoNaN(x) =>
                  /\ NoNaN(y)
                  /\ \A i \in 1..n : y[i] >= 0
                  /\ SumTo(y, 1, n) \in (ONE - n)..ONE
                  /\ n = 1 => y[1] = ONE

\* The layers from layer to the end of the chain, in chain order.
RECURSIVE ChainFrom(_, _)
ChainFrom(L, layer) ==
    IF layer = NULL THEN <<>> ELSE <<layer>> \o ChainFrom(L, L[layer].lnext)

\* The forward step of a layer, by its type.
StepName(L, l) ==
    IF L[l].ltype = LAYER_FULL THEN "Layer_feedForw_full"
    ELSE "Layer_feedForw_conv"

\* What the forward step of layer l gives on the layers as they are.
Recomputed(l) ==
    IF layers[l].ltype = LAYER_FULL
    THEN Layer_feedForw_full(layers[l], Prev(l))
    ELSE Layer_feedForw_conv(layers[l], Prev(l))

\* C10: after Layer_setInputs the input layer's outputs are the given values,
\* the forward steps that ran are one per subsequent layer, in chain order
\* from the input's successor to the last layer and none for the input
\* layer, and every such layer holds what its forward step computes from its
\* predecessor's outputs of this pass.
C10_ForwardPassInChainOrder ==
    AfterSetInputs =>
        LET in    == Last.self
            chain == ChainFrom(layers, layers[in].lnext)
        IN  /\ layers[in].outputs = Last.vals
            /\ calls = [k \in 1..Len(chain) |->
                           <<StepName(layers, chain[k]), chain[k]>>]
            /\ \A k \in 1..Len(calls) : calls[k][2] # in
            /\ \A k \in 1..Len(chain) :
                 /\ layers[chain[k]].outputs = Recomputed(chain[k]).outputs
                 /\ layers[chain[k]].gradients = Recomputed(chain[k]).gradients

\* A second forward pass, with other inputs than the first, has gone through
\* a chain of two layers after the input layer.
C10_Witness ==
    /\ AfterSetInputs
    /\ Len(calls) = 2
    /\ \E i \in 1..(Len(hist) - 1) :
        /\ hist[i].op = "Layer_setInputs"
        /\ hist[i].vals # Last.vals
        /\ \A j \in (i + 1)..Len(hist) : hist[j].op = "Layer_setInputs"
    /\ \E k \in 1..layers[Len(layers)].nnodes :
          Real(layers[Len(layers)].outputs[k])

\* The same layers with every errors buffer holding 7.0 in every place.
StaleErrors(L) ==
    [l \in 1..Len(L) |->
        [L[l] EXCEPT !.errors = [i \in 1..L[l].nnodes |-> 7 * ONE]]]

\* The backward step of a layer, by its type.
BackName(L, l) ==
    IF L[l].ltype = LAYER_FULL THEN "Layer_feedBack_full"
    ELSE "Layer_feedBack_conv"

\* The layers from layer back to the successor of the input layer, in the
\* order the backward loop meets them.
RECURSIVE BackChain(_, _)
BackChain(L, layer) ==
    IF layer = NULL \/ L[layer].ltype = LAYER_INPUT THEN <<>>
    ELSE <<layer>> \o BackChain(L, L[layer].lprev)

\* C11: after Layer_learnOutputs the errors of every layer are those of this
\* pass only: the backward steps ran once per layer from the output layer
\* back, so a layer's errors were complete when its own step read them; the
\* same call started from any stale errors gives the same errors, and the
\* same call repeated on the result gives the same errors again.
C11_ErrorsRebuiltEachPass ==
    [][LearnStep =>
        LET c     == hist'[Len(hist')]
            stale == Layer_learnOutputs(StaleErrors(layers), c.self, c.vals).L
            again == Layer_learnOutputs(layers', c.self, c.vals).L
            chain == BackChain(layers, c.self)
        IN  /\ calls' = [k \in 1..Len(chain) |->
                            <<BackName(layers, chain[k]), chain[k]>>]
            /\ \A l \in 1..Len(layers) :
                 /\ layers'[l].errors = stale[l].errors
                 /\ layers'[l].errors = again[l].errors
      ]_vars

\* A backward pass has run through a hidden layer whose errors, and those of
\* its predecessor, an earlier pass with the same target had left non-zero.
C11_Witness ==
    /\ Len(hist) >= 2
    /\ Last.op = "Layer_learnOutputs"
    /\ hist[Len(hist) - 1].op = "Layer_learnOutputs"
    /\ hist[Len(hist) - 1].vals = Last.vals
    /\ Len(calls) >= 2
    /\ \E l \in 1..Len(layers) :
        /\ layers[l].lnext # NULL
        /\ layers[l].lprev # NULL
        /\ \E i \in 1..layers[l].nnodes : Real(layers[l].errors[i])
        /\ \E j \in 1..Prev(l).nnodes : Real(Prev(l).errors[j])

\* A Layer_getErrorTotal call returns in this step.
GetErrorTotalStep ==
    hist' # hist /\ hist'[Len(hist')].op = "Layer_getErrorTotal"

\* C12: Layer_learnOutputs leaves in the output layer errors[i] = outputs[i] -
\* target[i] for every node, and Layer_getErrorTotal called right after it
\* returns the sum of the squares of those differences divided by nnodes,
\* changing nothing.
C12_OutputErrorsAndTotal ==
    [][/\ LearnStep =>
           LET c == hist'[Len(hist')]
           IN  layers'[c.self].errors =
                   [i \in 1..layers[c.self].nnodes |->
                       FSub(layers[c.self].outputs[i], c.vals[i])]
       /\ GetErrorTotalStep =>
           LET c == hist'[Len(hist')]
               t == hist[Len(hist)].vals
               n == layers[c.self].nnodes
               e == [i \in 1..n |-> FSub(layers[c.self].outputs[i], t[i])]
           IN  /\ hist[Len(hist)].op = "Layer_learnOutputs"
               /\ hist[Len(hist)].self = c.self
               /\ c.ret = FDiv(SumTo([i \in 1..n |-> FMul(e[i], e[i])], 1, n),
                               n * ONE)
               /\ layers' = layers
     ]_vars

\* The error total of a two-node output layer with a non-zero error has been
\* read right after learning.
C12_Witness ==
    /\ hist # <<>>
    /\ Last.op = "Layer_getErrorTotal"
    /\ Real(Last.ret)
    /\ layers[Last.self].nnodes = 2
    /\ \E i \in 1..2 : Real(layers[Last.self].errors[i])

\* A Layer_learnOutputs call whose target is the layer's present outputs
\* returns in this step.
ZeroTargetStep ==
    /\ LearnStep
    /\ hist'[Len(hist')].vals = layers[hist'[Len(hist')].self].outputs

\* What C13 states of such a step: every error is zero afterwards and every
\* accumulator is what it was.
ZeroErrorPass ==
    \A l \in 1..Len(layers) :
        /\ layers'[l].errors = Zeros(layers[l].nnodes)
        /\ layers'[l].u_weights = layers[l].u_weights
        /\ layers'[l].u_biases = layers[l].u_biases

\* What C13 states of the error total read after such a step: it is zero.
ZeroErrorTotal ==
    (/\ GetErrorTotalStep
     /\ hist[Len(hist)].op = "Layer_learnOutputs"
     /\ hist[Len(hist)].vals = layers[hist[Len(hist)].self].outputs)
        => hist'[Len(hist')].ret = 0

\* No NaN in any output, parameter or accumulator of the chain.
AllNumbers(L) ==
    \A l \in 1..Len(L) :
        /\ NoNaN(L[l].outputs) /\ NoNaN(L[l].gradients)
        /\ NoNaN(L[l].weights) /\ NoNaN(L[l].biases)
        /\ NoNaN(L[l].u_weights) /\ NoNaN(L[l].u_biases)

\* C13: learn-outputs with a target equal to the output layer's present
\* outputs leaves every layer's errors all zero and every update accumulator
\* of the chain as it was, and the error total read after it is zero.
C13_TargetEqualsOutputs ==
    [][/\ ZeroTargetStep => ZeroErrorPass
       /\ ZeroErrorTotal
     ]_vars

\* The same, for chains that hold numbers only (no NaN left by the softmax
\* of an earlier pass).
ZeroErrorPassOnNumbers ==
    [][/\ (ZeroTargetStep /\ AllNumbers(layers)) => ZeroErrorPass
       /\ AllNumbers(layers) => ZeroErrorTotal
     ]_vars

\* Such a pass has gone through a chain of two layers after the input layer
\* that held numbers only and non-zero accumulators.
ZeroErrorPassOnNumbers_Witness ==
    /\ hist # <<>>
    /\ Last.op = "Layer_learnOutputs"
    /\ Last.vals = layers[Last.self].outputs
    /\ AllNumbers(layers)
    /\ Len(calls) = 2
    /\ \E k \in 1..layers[Last.self].nweights :
          Real(layers[Last.self].u_weights[k])

\* There was a Layer_update, and no Layer_learnOutputs has returned since.
UpdatedSinceLearn ==
    \E i \in 1..Len(hist) :
        /\ hist[i].op = "Layer_update"
        /\ \A j \in (i + 1)..Len(hist) : hist[j].op # "Layer_learnOutputs"

\* Rates a second update is tried with: 0.5, 3.0 and -1.0.
OtherRates == { ONE \div 2, 3 * ONE, -ONE }

\* C14: a Layer_update issued after an earlier Layer_update with no
\* learn-outputs call in between changes no parameter and no accumulator of
\* any layer, whatever its rate.
C14_SecondUpdateNoOp ==
    [][/\ (UpdateStep /\ UpdatedSinceLearn) => layers' = layers
       /\ UpdateStep =>
            \A r \in OtherRates :
                Layer_update(layers', hist'[Len(hist')].self, r) = layers'
     ]_vars

\* A second update in a row has come after one that applied gradients.
C14_Witness ==
    /\ Len(hist) >= 2
    /\ Last.op = "Layer_update"
    /\ hist[Len(hist) - 1].op = "Layer_update"
    /\ \E l \in 1..Len(layers) : \E i \in 1..layers[l].nbiases :
          Real(layers[l].biases[i])

\* The number of lprev links from layer l to a layer without predecessor, or
\* -1 when fuel links do not reach one (a cycle).
RECURSIVE Distance(_, _, _)
Distance(L, l, fuel) ==
    IF L[l].lprev = NULL THEN 0
    ELSE IF fuel = 0 THEN -1
    ELSE LET d == Distance(L, L[l].lprev, fuel - 1)
         IN  IF d < 0 THEN -1 ELSE d + 1

\* The layer without predecessor that l's lprev links lead to.
RECURSIVE Root(_, _, _)
Root(L, l, fuel) ==
    IF L[l].lprev = NULL \/ fuel = 0 THEN l ELSE Root(L, L[l].lprev, fuel - 1)

\* The layers of the chain that l is in.
ChainOf(L, l) ==
    { k \in 1..Len(L) : Root(L, k, Len(L)) = Root(L, l, Len(L)) }

\* C15: every chain has exactly one layer without predecessor, which is its
\* only layer of kind input, and exactly one layer without successor; lprev
\* and lnext mirror each other; a layer's lid is its distance from the input
\* layer; no chain has a cycle; and no step changes the lprev of a layer
\* that exists.
C15_ChainShape ==
    /\ [](\A l \in 1..Len(layers) :
            LET chain == ChainOf(layers, l)
            IN  /\ layers[l].lprev \in 0..Len(layers)
                /\ layers[l].lnext \in 0..Len(layers)
                /\ Cardinality({ k \in chain : layers[k].lprev = NULL }) = 1
                /\ Cardinality({ k \in chain : layers[k].lnext = NULL }) = 1
                /\ \A k \in chain :
                      (layers[k].ltype = LAYER_INPUT) <=> (layers[k].lprev = NULL)
                /\ \A p \in 1..Len(layers) :
                      (layers[l].lprev = p) <=> (layers[p].lnext = l)
                /\ Distance(layers, l, Len(layers)) >= 0
                /\ layers[l].lid = Distance(layers, l, Len(layers)))
    /\ [][/\ Len(layers') >= Len(layers)
          /\ \A l \in 1..Len(layers) : layers'[l].lprev = layers[l].lprev
        ]_vars

\* Two chains have been built, one of them grown after the other was
\* started, and one has been taught and updated.
C15_Witness ==
    /\ Len(layers) = 3
    /\ Cardinality(InputLayers(layers)) = 2
    /\ hist # <<>>
    /\ Last.op = "Layer_update"
    /\ \E i \in 1..Len(hist) : hist[i].op = "Layer_learnOutputs"
    /\ layers[2].ltype = LAYER_INPUT
    /\ layers[3].lprev = 1
    /\ layers[3].lid = 1

\* A call returns in this step.
ReturnStep == hist' # hist

\* C16: a factory of a fully-connected or convolutional layer returns only
\* when its predecessor is not NULL and has no successor, set-inputs only on
\* an input layer, learn-outputs only on a layer that is not an input layer;
\* every other such call ends the run in a failed assert, with the links and
\* buffers of every layer as they were before the call, and nothing runs
\* after it.
C16_ViolationsAbortUnchanged ==
    [][/\ ReturnStep =>
            LET c == hist'[Len(hist')]
            IN  /\ c.op \in {"Layer_create_full", "Layer_create_conv"} =>
                     /\ c.self # NULL
                     /\ layers[c.self].lnext = NULL
                /\ c.op = "Layer_setInputs" =>
                     /\ c.self # NULL
                     /\ layers[c.self].ltype = LAYER_INPUT
                /\ c.op = "Layer_learnOutputs" =>
                     /\ c.self # NULL
                     /\ layers[c.self].ltype # LAYER_INPUT
       /\ aborted' # aborted =>
            /\ aborted = NoAssert
            /\ layers' = layers
            /\ hist' = hist
       /\ aborted # NoAssert => UNCHANGED vars
     ]_vars

\* A factory was called on a predecessor that has a successor, in a chain
\* that has been through a forward and a backward pass, and the assert of
\* Layer_create stopped it.
C16_Witness ==
    /\ aborted = "Layer_create: lprev->lnext == NULL"
    /\ Len(layers) >= 2
    /\ \E i \in 1..Len(hist) : hist[i].op = "Layer_learnOutputs"
    /\ \E k \in 1..layers[2].nweights : Real(layers[2].u_weights[k])

\* The condition C17 states on a request <<depth, width, height, kernsize,
\* padding, stride>> over the predecessor prev.
ShapeAccepted(prev, sh) ==
    /\ sh[4] % 2 = 1
    /\ (sh[2] - 1) * sh[6] + sh[4] <= prev.width + 2 * sh[5]
    /\ (sh[3] - 1) * sh[6] + sh[4] <= prev.height + 2 * sh[5]

\* C17: a Layer_create_conv that returns had an odd kernsize and a shape
\* with (width-1)*stride + kernsize <= prev.width + 2*padding and the same
\* for the height, and appended and linked a layer of exactly the requested
\* depth, width, height, kernsize, padding and stride; a request that fails
\* the condition fails an assert, and a failed assert leaves the layers,
\* the predecessor among them, as they were.
C17_ConvShapeChecked ==
    /\ [][/\ (ReturnStep /\ hist'[Len(hist')].op = "Layer_create_conv") =>
               LET c    == hist'[Len(hist')]
                   self == Len(layers')
               IN  /\ ShapeAccepted(layers[c.self], c.vals)
                   /\ self = Len(layers) + 1
                   /\ layers'[c.self].lnext = self
                   /\ layers'[self].lprev = c.self
                   /\ layers'[self].ltype = LAYER_CONV
                   /\ <<layers'[self].depth, layers'[self].width,
                        layers'[self].height, layers'[self].kernsize,
                        layers'[self].padding, layers'[self].stride>>
                        = SubSeq(c.vals, 1, 6)
                   /\ layers'[self].nnodes = c.vals[1] * c.vals[2] * c.vals[3]
          /\ aborted' # aborted => layers' = layers
        ]_vars
    /\ [](\A c \in ConvCalls(layers) :
            (c[1] # NULL /\ ~ShapeAccepted(layers[c[1]], c[2])) =>
                ConvAssert(layers, c[1], c[2][2], c[2][3], c[2][4],
                           c[2][5], c[2][6]) # NoAssert)

\* A 1x2 convolutional layer has been created over a 2x2 image, where 2x2
\* would have fitted too.
C17_Witness ==
    /\ hist # <<>>
    /\ Last.op = "Layer_create_conv"
    /\ layers[Len(layers)].width = 1
    /\ layers[Len(layers)].height = 2
    /\ Prev(Len(layers)).width = 2
    /\ layers[Len(layers)].kernsize = 3

\* The layers that have a buffer pointer left NULL.
Partial == { l \in 1..Len(layers) : layers[l].nullptrs # {} }

\* C18: when a calloc made while constructing a layer fails, the factory
\* returns NULL to its caller (it neither aborts nor faults nor returns a
\* record), and afterwards no layer's lnext refers to a layer that has a
\* NULL buffer.
C18_AllocFailureReturnsNull ==
    /\ aborted \notin {"Layer_create_full: self != NULL",
                       "Layer_create_conv: self != NULL", Segv}
    /\ OutOfMemory => Last.ret = NULL
    /\ \A l \in 1..Len(layers) : layers[l].lnext \notin Partial

\* A factory has met a failed allocation in a chain that was in use.
NoMem_Witness ==
    /\ OutOfMemory
    /\ Last.op = "Layer_create_full"
    /\ Last.failed = "outputs"
    /\ Last.ret \in Partial
    /\ layers[Last.self].lnext = Last.ret
    /\ \E i \in 1..Len(hist) : hist[i].op = "Layer_setInputs"

\* The output position (x1, y1) of layer self has pixel (0, 0) in its window.
Covers00(self, x1, y1) ==
    /\ 0 <= self.padding - self.stride * x1
    /\ self.padding - self.stride * x1 < self.kernsize
    /\ 0 <= self.padding - self.stride * y1
    /\ self.padding - self.stride * y1 < self.kernsize

\* The pre-activations of self with zero biases when its predecessor holds
\* v at pixel (0, 0) of slice z0 and zero everywhere else.
OnePixel(self, lprev, z0, v) ==
    PreAct_conv([self EXCEPT !.biases = Zeros(self.nbiases)],
                [lprev EXCEPT !.outputs =
                    [j \in 1..lprev.nnodes |->
                        IF j = z0 * lprev.width * lprev.height + 1
                        THEN v ELSE 0]])

\* C19: in every convolutional layer, for every input slice z0, the output
\* positions that read pixel (0, 0) of that slice are exactly the (x1, y1)
\* with 0 <= padding - stride*x1 < kernsize and 0 <= padding - stride*y1 <
\* kernsize, each reading it once; with zero biases and only that pixel
\* non-zero, the pre-activation of such a position is the pixel times the
\* weight it is read with, and every other pre-activation is zero.
C19_ConvBoundaryRule ==
    \A l \in ConvLayers :
        LET self == layers[l]
            prev == Prev(l)
            taps == ForwTaps_conv(self, prev)
        IN  \A z0 \in 0..(prev.depth - 1) :
            \A i \in 0..(self.nnodes - 1) :
                LET x1  == i % self.width
                    y1  == (i \div self.width) % self.height
                    hit == { t \in taps : /\ t[1] = i
                                           /\ t[2] = z0 * prev.width * prev.height }
                IN  /\ Cardinality(hit) = IF Covers00(self, x1, y1) THEN 1 ELSE 0
                    /\ \A v \in {ONE, -(6 * ONE)} :
                         OnePixel(self, prev, z0, v)[i + 1] =
                            IF Covers00(self, x1, y1)
                            THEN LET t == CHOOSE u \in hit : TRUE
                                 IN  FMul(v, self.weights[t[3] + 1])
                            ELSE 0

\* There is a convolutional layer some of whose output positions have pixel
\* (0, 0) in their window and some not, and one whose window starts in the
\* padding.
C19_Witness ==
    /\ \E l \in ConvLayers :
         /\ \E i \in 0..(layers[l].nnodes - 1) :
               Covers00(layers[l], i % layers[l].width,
                        (i \div layers[l].width) % layers[l].height)
         /\ \E i \in 0..(layers[l].nnodes - 1) :
               ~Covers00(layers[l], i % layers[l].width,
                         (i \div layers[l].width) % layers[l].height)
    /\ \E l \in ConvLayers :
         /\ layers[l].padding > 0
         /\ \E k \in 1..layers[l].nweights : Real(layers[l].weights[k])

\* The convolutional layers with kernel size 3, padding 1 and stride 1.
SameSizeLayers ==
    { l \in ConvLayers : /\ layers[l].kernsize = 3
                         /\ layers[l].padding = 1
                         /\ layers[l].stride = 1 }

\* The two shape asserts of Layer_create_conv.
ShapeAsserts ==
    { "Layer_create_conv: (width-1) * stride + kernsize <= lprev->width + padding*2",
      "Layer_create_conv: (height-1) * stride + kernsize <= lprev->height + padding*2" }

\* C20, as stated: a convolutional layer with kernel size 3, padding 1 and
\* stride 1 has the width and the height of its predecessor.
C20_SameSizeAsPredecessor ==
    \A l \in SameSizeLayers :
        /\ layers[l].width = Prev(l).width
        /\ layers[l].height = Prev(l).height

\* C20, amended: a convolutional layer with kernel size 3, padding 1 and
\* stride 1 has the width and height it was asked to have, which are at
\* most those of its predecessor; a request for such a layer fails a shape
\* assert exactly when the width or the height asked for is larger than the
\* predecessor's, so a layer of the predecessor's size is accepted.
C20_AtMostPredecessorSize ==
    /\ \A l \in SameSizeLayers :
        /\ layers[l].width <= Prev(l).width
        /\ layers[l].height <= Prev(l).height
    /\ \A c \in ConvCalls(layers) :
        (c[1] # NULL /\ SubSeq(c[2], 4, 6) = <<3, 1, 1>>) =>
            (ConvAssert(layers, c[1], c[2][2], c[2][3], c[2][4], c[2][5],
                        c[2][6]) \in ShapeAsserts
             <=> ~(/\ c[2][2] <= layers[c[1]].width
                   /\ c[2][3] <= layers[c[1]].height))

\* A 2x2 convolutional layer with kernel size 3, padding 1 and stride 1 has
\* been created over a 2x2 image.
C20_Witness ==
    /\ hist # <<>>
    /\ Last.op = "Layer_create_conv"
    /\ Len(layers) \in SameSizeLayers
    /\ layers[Len(layers)].width = 2
    /\ layers[Len(layers)].height = 2
    /\ Prev(Len(layers)).width = 2
    /\ Prev(Len(layers)).height = 2

\* Layer l is as it was but for the fields named.
SameBut(l, fields) ==
    \A f \in DOMAIN layers[l] \ fields : layers'[l][f] = layers[l][f]

\* C21: Layer_setInputs changes only outputs and gradients of the layers;
\* Layer_learnOutputs only errors, u_biases and u_weights;
\* Layer_update only biases, weights, u_biases and u_weights;
\* Layer_getOutputs and Layer_getErrorTotal change no layer; none of the five
\* adds or removes a layer or changes a layer's shape, nnodes, nbiases,
\* nweights, ltype, lid, lprev or lnext.
C21_FrameConditions ==
    [][ReturnStep =>
        LET op == hist'[Len(hist')].op
        IN  /\ op = "Layer_setInputs" =>
                /\ Len(layers') = Len(layers)
                /\ \A l \in 1..Len(layers) : SameBut(l, {"outputs", "gradients"})
            /\ op = "Layer_learnOutputs" =>
                /\ Len(layers') = Len(layers)
                /\ \A l \in 1..Len(layers) :
                      SameBut(l, {"errors", "u_biases", "u_weights"})
            /\ op = "Layer_update" =>
                /\ Len(layers') = Len(layers)
                /\ \A l \in 1..Len(layers) :
                      SameBut(l, {"biases", "weights", "u_biases", "u_weights"})
            /\ op \in {"Layer_getOutputs", "Layer_getErrorTotal"} =>
                layers' = layers
    ]_vars

\* Outputs have been read after a Layer_setInputs, a Layer_learnOutputs and a
\* Layer_update, each of which has left its mark: outputs, errors and biases
\* that are no longer zero.
C21_Witness ==
    /\ hist # <<>>
    /\ Last.op = "Layer_getOutputs"
    /\ {"Layer_setInputs", "Layer_learnOutputs", "Layer_update"}
          \subseteq { hist[n].op : n \in 1..Len(hist) }
    /\ \E l \in 1..Len(layers) :
          /\ \E i \in 1..layers[l].nnodes : Real(layers[l].errors[i])
          /\ \E i \in 1..layers[l].nnodes : Real(Last.ret[i])
          /\ \E i \in 1..layers[l].nbiases : Real(layers[l].biases[i])

\* The blocks of a layer: its record and its seven buffers.
Blocks == {"self", "outputs", "gradients", "errors", "biases", "u_biases",
           "weights", "u_weights"}

\* C22: a Layer_destroy(self) frees the record of self and each of its seven
\* buffers once and leaves every other layer, its links to self included,
\* exactly as it was; no block is ever freed twice; and once every layer of
\* the chain has been destroyed, in whatever order, every block has been
\* freed exactly once.
C22_DestroyFreesOwnBlocksOnce ==
    /\ [][(ReturnStep /\ hist'[Len(hist')].op = "Layer_destroy") =>
            LET self == hist'[Len(hist')].self
            IN  /\ Len(layers') = Len(layers)
                /\ \A l \in (1..Len(layers)) \ {self} : layers'[l] = layers[l]
                /\ SameBut(self, {"freed"})
                /\ \A a \in Blocks :
                      layers'[self].freed[a] = layers[self].freed[a] + 1
         ]_vars
    /\ [](\A l \in 1..Len(layers) : \A a \in Blocks : layers[l].freed[a] <= 1)
    /\ [](Destroyed(layers) = 1..Len(layers) =>
            \A l \in 1..Len(layers) : \A a \in Blocks : layers[l].freed[a] = 1)

\* A chain of three layers has been destroyed, the middle layer first and
\* the input layer last.
C22_Witness ==
    /\ Len(layers) = 3
    /\ Destroyed(layers) = 1..3
    /\ Len(hist) = 6
    /\ <<hist[4].self, hist[5].self, hist[6].self>> = <<2, 3, 1>>

\* Only factories and Layer_getOutputs have been called so far.
Fresh ==
    \A n \in 1..Len(hist) :
        hist[n].op \in {"Layer_create_input", "Layer_create_full",
                        "Layer_create_conv", "Layer_getOutputs"}

\* Layer l was created with a standard deviation of 0.
ZeroStd(l) ==
    \E n \in 1..Len(hist) :
        /\ hist[n].op \in {"Layer_create_full", "Layer_create_conv"}
        /\ hist[n].self = layers[l].lprev
        /\ hist[n].vals[Len(hist[n].vals)] = 0

\* C23: while only factories and Layer_getOutputs have been called, every
\* layer's outputs, biases, u_biases and u_weights are all zero, what
\* Layer_getOutputs returns for it is all zero, every layer created with a
\* standard deviation of 0 has only zero weights, and a Layer_getOutputs that
\* returns has returned zeros.
C23_FreshChainIsZero ==
    /\ [](Fresh =>
            \A l \in 1..Len(layers) :
                /\ layers[l].outputs = Zeros(layers[l].nnodes)
                /\ Layer_getOutputs(layers[l]) = Zeros(layers[l].nnodes)
                /\ layers[l].biases = Zeros(layers[l].nbiases)
                /\ layers[l].u_biases = Zeros(layers[l].nbiases)
                /\ layers[l].u_weights = Zeros(layers[l].nweights)
                /\ (layers[l].lprev # NULL /\ ZeroStd(l)) =>
                      layers[l].weights = Zeros(layers[l].nweights))
    /\ [][(ReturnStep /\ Fresh' /\ hist'[Len(hist')].op = "Layer_getOutputs") =>
            LET c == hist'[Len(hist')]
            IN  c.ret = Zeros(layers[c.self].nnodes)]_vars

\* The outputs of a fully-connected layer created with a standard deviation
\* of 0 over a convolutional layer with weights, created with 0 as well, have
\* been read before any Layer_setInputs.
C23_Witness ==
    /\ Fresh
    /\ Len(layers) = 3
    /\ layers[2].ltype = LAYER_CONV
    /\ layers[3].ltype = LAYER_FULL
    /\ ZeroStd(2)
    /\ ZeroStd(3)
    /\ layers[2].nweights > 0
    /\ layers[3].nweights > 0
    /\ Last.op = "Layer_getOutputs"
    /\ Last.self = 3

\* Every (i, p, q) of taps is an index into outputs, into the predecessor's
\* outputs and into weights.
TapsInBounds(taps, self, lprev) ==
    \A t \in taps : /\ 0 <= t[1] /\ t[1] < self.nnodes
                    /\ 0 <= t[2] /\ t[2] < lprev.nnodes
                    /\ 0 <= t[3] /\ t[3] < self.nweights

\* The forward and the backward step of convolutional layer l stay inside
\* its arrays and its predecessor's: every tap, every biases[z1], and the
\* running index i, which ends at nnodes.
ConvInBounds(l) ==
    /\ TapsInBounds(ForwTaps_conv(layers[l], Prev(l)), layers[l], Prev(l))
    /\ TapsInBounds(BackTaps_conv(layers[l], Prev(l)), layers[l], Prev(l))
    /\ \A z1 \in 0..(layers[l].depth - 1) : z1 < layers[l].nbiases
    /\ LoopCount(layers[l]) = layers[l].nnodes

\* The asserts on the running index of the two convolutional steps.
IndexAsserts ==
    { "Layer_feedForw_conv: i == self->nnodes",
      "Layer_feedBack_conv: i == self->nnodes" }

\* C24: for every convolutional layer that Layer_create_conv has returned,
\* the forward and backward steps index outputs, the predecessor's outputs,
\* weights and biases inside their bounds, the running index i ends at
\* nnodes, and the assert i == nnodes never fails.
C24_ConvAccessesInBounds ==
    /\ \A l \in ConvLayers : ConvInBounds(l)
    /\ aborted \notin IndexAsserts

\* The same, for the layers whose depth, width and height are positive, with
\* any stride and padding the asserts let through.
ConvInBoundsWhenPositive ==
    \A l \in ConvLayers :
        (layers[l].depth > 0 /\ layers[l].width > 0 /\ layers[l].height > 0)
            => ConvInBounds(l)

\* A forward and a backward pass have run through a convolutional layer with
\* a stride of 0 or less.
ConvInBoundsWhenPositive_Witness ==
    /\ hist # <<>>
    /\ Last.op = "Layer_learnOutputs"
    /\ \E l \in ConvLayers : layers[l].stride <= 0 /\ layers[l].width > 0
    /\ \E n \in 1..Len(hist) : hist[n].op = "Layer_setInputs"

\* The places of the Layer_update calls in hist.
UpdatePlaces == { n \in 1..Len(hist) : hist[n].op = "Layer_update" }

\* The Layer_learnOutputs calls between the Layer_update at place n and the
\* one before it (or the start of the run).
LearnedBefore(n) ==
    Cardinality({ m \in 1..n :
        /\ hist[m].op = "Layer_learnOutputs"
        /\ \A u \in UpdatePlaces : u < n => u < m })

\* C25: in the training loop every Layer_update, the first one included,
\* comes after exactly BatchSize calls of Layer_learnOutputs since the update
\* before it, and so applies the gradients of BatchSize samples.
C25_UpdateEveryBatch ==
    \A n \in UpdatePlaces : LearnedBefore(n) = BatchSize

\* Every Layer_update but the first comes after exactly BatchSize calls of
\* Layer_learnOutputs, and the first comes after one.
UpdateEveryBatchButFirst ==
    \A n \in UpdatePlaces :
        LearnedBefore(n) = IF \E u \in UpdatePlaces : u < n
                           THEN BatchSize ELSE 1

\* The training loop has made its second update and learned a sample since.
UpdateEveryBatchButFirst_Witness ==
    /\ Cardinality(UpdatePlaces) = 2
    /\ TrainIndex = 4

\* C26: in the sigmoid network a Layer_learnOutputs(loutput, t) adds
\* errors[i] * gradients[i] to every u_biases[i] of the output layer, with
\* errors = outputs - t, and rebuilds the errors of the layer before it from
\* the output layer's weights; and a Layer_update that follows it changes the
\* output layer's biases when some errors[i] * gradients[i] is not zero.
C26_BnnOutputLayerLearns ==
    /\ [][(ReturnStep /\ hist'[Len(hist')].op = "Layer_learnOutputs") =>
            LET out  == hist'[Len(hist')].self
                now  == [layers[out] EXCEPT !.errors = layers'[out].errors]
                back == bnn_Layer_feedBack([layers EXCEPT ![out] = now], out)
            IN  /\ \A i \in 1..now.nnodes :
                      layers'[out].errors[i]
                          = FSub(layers[out].outputs[i], hist'[Len(hist')].vals[1])
                /\ layers'[out].u_biases
                      = [i \in 1..now.nbiases |->
                            FAdd(layers[out].u_biases[i], Dnet(now)[i])]
                /\ layers'[now.lprev].errors = back[now.lprev].errors
         ]_vars
    /\ [][(/\ ReturnStep
           /\ hist'[Len(hist')].op = "Layer_update"
           /\ hist # <<>>
           /\ hist[Len(hist)].op = "Layer_learnOutputs"
           /\ \E i \in 1..layers[Len(layers)].nnodes :
                 Real(Dnet(layers[Len(layers)])[i]))
          => layers'[Len(layers)].biases # layers[Len(layers)].biases
         ]_vars

\* Layer_learnOutputs runs the backward step of every layer before the
\* output layer and leaves the accumulators of the output layer as they were.
BnnOutputLayerSkipped ==
    [][(ReturnStep /\ hist'[Len(hist')].op = "Layer_learnOutputs") =>
        LET out == hist'[Len(hist')].self
        IN  /\ layers'[out].u_biases = layers[out].u_biases
            /\ layers'[out].u_weights = layers[out].u_weights
            /\ layers'[layers[out].lprev].errors = layers[layers[out].lprev].errors
    ]_vars

\* A layer of the sigmoid network has been taught after a forward pass, with
\* an error and a gradient whose product is not zero.
BnnOutputLayerSkipped_Witness ==
    /\ hist # <<>>
    /\ Last.op = "Layer_learnOutputs"
    /\ Len(layers) = 3
    /\ \E i \in 1..layers[3].nnodes : Real(Dnet(layers[3])[i])
    /\ \E n \in 1..Len(hist) : hist[n].op = "Layer_setInputs"

\* C27: every convolutional layer that Layer_create_conv has returned has a
\* kernel size above 0 and a stride above 0, and Layer_create_conv refuses
\* every request with a kernel size or a stride of 0 or less.
C27_KernelAndStridePositive ==
    /\ \A l \in ConvLayers : layers[l].kernsize > 0 /\ layers[l].stride > 0
    /\ \A lprev \in OutputLayers(layers), sh \in ExtremeShapes \cup ConvShapes :
          (sh[4] <= 0 \/ sh[6] <= 0) =>
              ConvAssert(layers, lprev, sh[2], sh[3], sh[4], sh[5], sh[6])
                  # NoAssert

\* The same for the kernel size alone: it is positive (and odd) in every
\* layer returned, and a request with a kernel size of 0 or less fails the
\* assert on kernsize % 2.
KernelSizePositive ==
    /\ \A l \in ConvLayers :
          layers[l].kernsize > 0 /\ layers[l].kernsize % 2 = 1
    /\ \A lprev \in OutputLayers(layers), sh \in ExtremeShapes \cup ConvShapes :
          sh[4] <= 0 =>
              ConvAssert(layers, lprev, sh[2], sh[3], sh[4], sh[5], sh[6])
                  = "Layer_create_conv: (kernsize % 2) == 1"

\* A request has failed the assert on the kernel size where the chain ends
\* in a convolutional layer with a stride of 0 or less.
KernelSizePositive_Witness ==
    /\ aborted = "Layer_create_conv: (kernsize % 2) == 1"
    /\ \E l \in ConvLayers \cap OutputLayers(layers) : layers[l].stride <= 0

\* The layers of the recurrent network after the input layer.
RnnFed == { l \in 1..Len(layers) : layers[l].lprev # NULL }

\* C28: after an RNNLayer_setInputs, in every layer after the input layer,
\* output i of slot 0 is tanh of biases[i], plus the sum over j of the
\* predecessor's new output j times xweights[i, j], plus the sum over j of
\* the layer's own output j of the step before (all of them the old values)
\* times hweights[i, j]; and every slot t >= 1 holds what slot t-1 held
\* before the call.  In the input layer slot 0 holds the values given and the
\* other slots are shifted in the same way.
C28_RecurrentStepReadsWholePreviousState ==
    [][(ReturnStep /\ hist'[Len(hist')].op = "RNNLayer_setInputs") =>
        /\ \A l \in RnnFed :
            LET old == layers[l]
                new == layers'[l]
                in  == layers'[old.lprev]
                n   == old.nnodes
            IN  /\ \A i \in 1..n :
                     new.outputs[i] =
                        Tanh(FAdd(FAdd(old.biases[i],
                            SumTo([j \in 1..in.nnodes |->
                                     FMul(in.outputs[j],
                                          old.xweights[(i - 1) * in.nnodes + j])],
                                  1, in.nnodes)),
                            SumTo([j \in 1..n |->
                                     FMul(old.outputs[j],
                                          old.hweights[(i - 1) * n + j])],
                                  1, n)))
                /\ \A k \in (n + 1)..(n * old.ntimes) :
                     new.outputs[k] = old.outputs[k - n]
        /\ \A k \in 1..Len(layers[1].outputs) :
              layers'[1].outputs[k] =
                 IF k <= layers[1].nnodes THEN hist'[Len(hist')].vals[k]
                 ELSE layers[1].outputs[k - layers[1].nnodes]
    ]_vars

\* An RNNLayer_setInputs has just run on a network with two time slots and a
\* layer of two nodes whose outputs of the step before, now in slot 1, were
\* not zero and weighed in through an hweight that is not zero.
C28_Witness ==
    /\ hist # <<>>
    /\ Last.op = "RNNLayer_setInputs"
    /\ \E l \in RnnFed :
        /\ layers[l].nnodes = 2
        /\ layers[l].ntimes = 2
        /\ \E i, j \in 1..2 :
              Real(FMul(layers[l].outputs[2 + j], layers[l].hweights[(i - 1) * 2 + j]))

\* C29: after an RNNLayer_reset the outputs of the layer are zero in every
\* time slot 0..ntimes-1, so that no output computed before the reset is left
\* for a later forward or backward pass to read.
C29_ResetClearsEverySlot ==
    [][(ReturnStep /\ hist'[Len(hist')].op = "RNNLayer_reset") =>
        LET self == hist'[Len(hist')].self
        IN  \A k \in 1..(layers'[self].nnodes * layers'[self].ntimes) :
                layers'[self].outputs[k] = 0
    ]_vars

\* What RNNLayer_reset does: slot 0 of the outputs of the layer is zero, the
\* slots after it and every other field and layer are as they were.
ResetClearsSlotZeroOnly ==
    [][(ReturnStep /\ hist'[Len(hist')].op = "RNNLayer_reset") =>
        LET self == hist'[Len(hist')].self
            n    == layers[self].nnodes
        IN  /\ \A k \in 1..n : layers'[self].outputs[k] = 0
            /\ \A k \in (n + 1)..(n * layers[self].ntimes) :
                  layers'[self].outputs[k] = layers[self].outputs[k]
            /\ layers' = [layers EXCEPT ![self].outputs = layers'[self].outputs]
    ]_vars

\* An RNNLayer_reset has just run on a layer with two time slots, and slot 1
\* still holds an output that is not zero.
ResetClearsSlotZeroOnly_Witness ==
    /\ hist # <<>>
    /\ Last.op = "RNNLayer_reset"
    /\ layers[Last.self].ntimes = 2
    /\ \E k \in (layers[Last.self].nnodes + 1)..(2 * layers[Last.self].nnodes) :
          Real(layers[Last.self].outputs[k])

\* The body of the backward loops as the documentation of the recurrent
\* network states it: in every slot t the input weights and the errors of the
\* predecessor take their terms; the recurrent terms go to slot t+1 when there
\* is one.
StatedBackNode(st, t, i) ==
    LET self  == st.self
        lprev == st.lprev
        n     == self.nnodes
        pn    == lprev.nnodes
        i0    == t * n
        i1    == (t + 1) * n
        j0    == t * pn
        dnet  == FMul(self.errors[i0 + i + 1], tanh_g(self.outputs[i0 + i + 1]))
        doH   == (t + 1) < self.ntimes
    IN  [self  |-> [self EXCEPT
            !.u_xweights = [k \in 1..self.nxweights |->
                IF k > i * pn /\ k <= (i + 1) * pn
                THEN FAdd(@[k], FMul(dnet, lprev.outputs[j0 + k - i * pn]))
                ELSE @[k]],
            !.errors = [k \in 1..Len(self.errors) |->
                IF doH /\ k > i1 /\ k <= i1 + n
                THEN FAdd(@[k], FMul(self.hweights[i * n + k - i1], dnet))
                ELSE @[k]]],
         lprev |-> [lprev EXCEPT
            !.errors = [k \in 1..Len(lprev.errors) |->
                IF k > j0 /\ k <= j0 + pn
                THEN FAdd(@[k], FMul(self.xweights[i * pn + k - j0], dnet))
                ELSE @[k]]]]

RECURSIVE StatedBackLoop(_, _)
StatedBackLoop(st, k) ==
    IF k = 0 THEN st
    ELSE StatedBackNode(StatedBackLoop(st, k - 1),
                        (k - 1) \div st.self.nnodes, (k - 1) % st.self.nnodes)

\* The layers as RNNLayer_learnOutputs(self, r) hands them to the backward
\* loops of self: slot 0 of the errors of self is outputs - r, slot 0 of the
\* errors of the predecessor is cleared.
BackStart(self, r) ==
    LET p == layers[self].lprev
    IN  [self  |-> [layers[self] EXCEPT !.errors = [k \in 1..Len(@) |->
                       IF k <= layers[self].nnodes
                       THEN FSub(layers[self].outputs[k], r) ELSE @[k]]],
         lprev |-> [layers[p] EXCEPT !.errors = [k \in 1..Len(@) |->
                       IF k <= layers[p].nnodes THEN 0 ELSE @[k]]]]

\* C30: an RNNLayer_learnOutputs adds to u_xweights[i, j] of the output layer,
\* for every slot t in 0..ntimes-1 and every node i, dnet(t, i) times the
\* predecessor's output j of slot t, and to the predecessor's error j of slot
\* t xweights[i, j] times dnet(t, i) (seen in the predecessor when it is the
\* input layer, whose errors no later step touches); so with ntimes = 1 a
\* call with an error and an input that are not zero changes u_xweights.
C30_InputWeightsTrainedInEverySlot ==
    [][(ReturnStep /\ hist'[Len(hist')].op = "RNNLayer_learnOutputs") =>
        LET self == hist'[Len(hist')].self
            p    == layers[self].lprev
            st   == StatedBackLoop(BackStart(self, hist'[Len(hist')].vals[1]),
                                   layers[self].ntimes * layers[self].nnodes)
        IN  /\ layers'[self].u_xweights = st.self.u_xweights
            /\ layers[p].lprev = NULL => layers'[p].errors = st.lprev.errors
    ]_vars

\* What the code does with one time slot: the terms of the input weights are
\* added only in the slots t with t+1 < ntimes, so with ntimes = 1 no
\* RNNLayer_learnOutputs changes u_xweights of any layer or writes an error
\* other than zero to a predecessor.
InputWeightsUntrainedWithOneSlot ==
    [][(ReturnStep /\ hist'[Len(hist')].op = "RNNLayer_learnOutputs") =>
        \A l \in RnnFed :
            layers[l].ntimes = 1 =>
                /\ layers'[l].u_xweights = layers[l].u_xweights
                /\ layers'[layers[l].lprev].errors =
                      Zeros(layers[layers[l].lprev].nnodes)
    ]_vars

\* An RNNLayer_learnOutputs has just run with one time slot, on an output
\* node whose error times gradient is not zero and whose predecessor has an
\* output that is not zero: u_biases has taken the term, u_xweights is zero.
InputWeightsUntrainedWithOneSlot_Witness ==
    /\ hist # <<>>
    /\ Last.op = "RNNLayer_learnOutputs"
    /\ layers[Last.self].ntimes = 1
    /\ \E i \in 1..layers[Last.self].nnodes :
       \E j \in 1..layers[layers[Last.self].lprev].nnodes :
          /\ Real(layers[Last.self].u_biases[i])
          /\ Real(FMul(layers[Last.self].u_biases[i],
                       layers[layers[Last.self].lprev].outputs[j]))
          /\ layers[Last.self].u_xweights = Zeros(layers[Last.self].nxweights)

====
